---------------------------- MODULE Spec2Model ----------------------------
(***************************************************************************)
(* A model of the UMT portal client: the Session operations of api.go and  *)
(* of the session file (Login, Logout, GetCourses, GetCourseAssessments,   *)
(* GetCourseAttendance, GetTranscript), the token-stream parsers, and the  *)
(* bubbletea model of ui.go that drives them.                              *)
(*                                                                         *)
(* Text that the code converts (tokens, ids, numbers) is a sequence of     *)
(* one-character strings, so that TrimPrefix, TrimSuffix, TrimSpace, Atoi, *)
(* ParseFloat, Contains, EqualFold and ToUpper are computed, not assumed.  *)
(* Text that the code only copies is an ordinary string.                   *)
(***************************************************************************)
EXTENDS Integers, Sequences, FiniteSets, Bags, TLC

(***************************************************************************)
(* Go's strings and strconv, on sequences of characters                    *)
(***************************************************************************)
Digits == <<"0","1","2","3","4","5","6","7","8","9">>

UpperLetters ==
    <<"A","B","C","D","E","F","G","H","I","J","K","L","M",
      "N","O","P","Q","R","S","T","U","V","W","X","Y","Z">>

LowerLetters ==
    <<"a","b","c","d","e","f","g","h","i","j","k","l","m",
      "n","o","p","q","r","s","t","u","v","w","x","y","z">>

IsDigit(c) == \E i \in 1..10 : Digits[i] = c

DigitVal(c) == (CHOOSE i \in 1..10 : Digits[i] = c) - 1

ToLowerChar(c) ==
    IF \E i \in 1..26 : UpperLetters[i] = c
    THEN LowerLetters[CHOOSE i \in 1..26 : UpperLetters[i] = c]
    ELSE c

ToUpperChar(c) ==
    IF \E i \in 1..26 : LowerLetters[i] = c
    THEN UpperLetters[CHOOSE i \in 1..26 : LowerLetters[i] = c]
    ELSE c

ToLower(s) == [i \in 1..Len(s) |-> ToLowerChar(s[i])]

ToUpper(s) == [i \in 1..Len(s) |-> ToUpperChar(s[i])]

EqualFold(s, t) == ToLower(s) = ToLower(t)

HasPrefix(s, p) == Len(s) >= Len(p) /\ SubSeq(s, 1, Len(p)) = p

HasSuffix(s, p) == Len(s) >= Len(p) /\ SubSeq(s, Len(s) - Len(p) + 1, Len(s)) = p

TrimPrefix(s, p) == IF HasPrefix(s, p) THEN SubSeq(s, Len(p) + 1, Len(s)) ELSE s

TrimSuffix(s, p) == IF HasSuffix(s, p) THEN SubSeq(s, 1, Len(s) - Len(p)) ELSE s

IsSpace(c) == c = " "

TrimSpace(s) ==
    LET idx == {i \in 1..Len(s) : ~IsSpace(s[i])}
    IN  IF idx = {} THEN <<>>
        ELSE LET lo == CHOOSE i \in idx : \A j \in idx : i <= j
                 hi == CHOOSE i \in idx : \A j \in idx : j <= i
             IN  SubSeq(s, lo, hi)

\* the first position at which p occurs in s, 0 when it does not
Index(s, p) ==
    LET at == {i \in 1..(Len(s) - Len(p) + 1) : SubSeq(s, i, i + Len(p) - 1) = p}
    IN  IF at = {} THEN 0 ELSE CHOOSE i \in at : \A j \in at : i <= j

Contains(s, p) == Index(s, p) # 0

RECURSIVE DigitsValue(_)
DigitsValue(s) ==
    IF s = <<>> THEN 0
    ELSE 10 * DigitsValue(SubSeq(s, 1, Len(s) - 1)) + DigitVal(s[Len(s)])

AllDigits(s) == \A i \in 1..Len(s) : IsDigit(s[i])

\* strconv.Atoi: an optional sign, then one or more decimal digits
Atoi(s) ==
    LET signed == s # <<>> /\ s[1] \in {"+", "-"}
        body   == IF signed THEN Tail(s) ELSE s
    IN  IF body # <<>> /\ AllDigits(body)
        THEN [ok |-> TRUE,
              val |-> IF signed /\ s[1] = "-" THEN 0 - DigitsValue(body)
                      ELSE DigitsValue(body)]
        ELSE [ok |-> FALSE, val |-> 0]


(***************************************************************************)
(* Bounds of the model and constants of the program                        *)
(***************************************************************************)
\* the longest course list a courses page yields in the model
MaxCourses == 2

\* the most cookies the login jar holds in the model
MaxCookies == 4

\* api.go:63  if len(allCookies) < 3
MinLoginCookies == 3

\* api.go:350 and api.go:571  maxRetries := 10
maxRetries == 10

\* api.go:475 and api.go:617  a body under 30000 bytes is retried
SizeThreshold == 30000

\* api.go:505  if len(extractedData) < 6
MinAttendanceTokens == 6

(***************************************************************************)
(* The data model (session file: Attendance, Course, Student, Session)     *)
(***************************************************************************)
NewCourse(id, code) ==
    [ID |-> id, Code |-> code, TotalLectures |-> 0, AttendancePercentage |-> 0,
     Attendance |-> <<>>, Assessment |-> <<>>]

EmptyTranscript ==
    [Semester |-> <<>>, CreditHoursEarned |-> <<>>, CreditHoursForGPA |-> <<>>,
     TotalGradePoints |-> <<>>, TotalCGPA |-> <<>>]

EmptyStudent ==
    [Name |-> <<>>, Batch |-> <<>>, ID |-> <<>>, Program |-> <<>>, ProgramLevel |-> <<>>,
     Email |-> <<>>, CurrentSemester |-> <<>>, CgpaEarned |-> <<>>,
     MaxAllowedCreditHours |-> <<>>, RequestedCreditHours |-> <<>>,
     CompletedCreditHours |-> <<>>, RequiredCreditHours |-> <<>>,
     Courses |-> <<>>, Transcript |-> EmptyTranscript]

\* Session{}: Cookies is the number of cookies held, loggedIn the flag only ui.go sets
NewSession == [loggedIn |-> FALSE, Student |-> EmptyStudent, Cookies |-> 0]

\* a search that returns the last course with the ID
getCourseIndexLast(s, courseId) ==
    LET hit == {i \in 1..Len(s.Student.Courses) : s.Student.Courses[i].ID = courseId}
    IN  IF hit = {} THEN 0 ELSE CHOOSE i \in hit : \A j \in hit : i >= j

\* getCourseIndex, 1-based: 0 stands for the code's -1
getCourseIndex(s, courseId) ==
    LET hit == {i \in 1..Len(s.Student.Courses) : s.Student.Courses[i].ID = courseId}
    IN  IF hit = {} THEN 0 ELSE CHOOSE i \in hit : \A j \in hit : i <= j

IsLoggedIn(s) == s.Cookies > 2

\* a Logout that clears the Student and keeps the cookies
LogoutKeepsCookies(s) == [s EXCEPT !.Student = EmptyStudent]

Logout(s) == [s EXCEPT !.Cookies = 0, !.Student = EmptyStudent]

(***************************************************************************)
(* The attendance parser (api.go:504-554)                                  *)
(***************************************************************************)
LecturePrefix == <<"L","e","c","t","u","r","e"," ","N","o","."," ">>

TotalPrefix == <<"T","o","t","a","l"," ","L","e","c","t","u","r","e","s"," ",":"," ">>

SuffixAttandence == <<" ","%"," ","A","t","t","a","n","d","e","n","c","e">>

SuffixAttendance == <<" ","%"," ","A","t","t","e","n","d","a","n","c","e">>

PresentWord == <<"P","r","e","s","e","n","t">>

\* extractedData[k] of the code, k counted from 0
Tok(data, k) == data[k + 1]

\* a group that gives a record with lecture number 0 when the number does not parse
AttendanceGroupKeepsNonNumeric(data, i) ==
    LET lectureNum == Atoi(TrimPrefix(Tok(data, i), LecturePrefix))
    IN  << [LectureNumber |-> IF lectureNum.ok THEN lectureNum.val ELSE 0,
            LectureDate   |-> Tok(data, i + 1),
            Attendance    |-> EqualFold(Tok(data, i + 2), PresentWord),
            Faculty       |-> Tok(data, i + 3)] >>

\* one group of four tokens starting at i: the record, or nothing when the
\* lecture number does not parse
AttendanceGroup(data, i) ==
    LET lectureNum == Atoi(TrimPrefix(Tok(data, i), LecturePrefix))
    IN  IF ~lectureNum.ok THEN <<>>
        ELSE << [LectureNumber |-> lectureNum.val,
                 LectureDate   |-> Tok(data, i + 1),
                 Attendance    |-> EqualFold(Tok(data, i + 2), PresentWord),
                 Faculty       |-> Tok(data, i + 3)] >>

\* for i := startIndex; i < endIndex; i += 4 { if i+3 >= endIndex { break } ... }
RECURSIVE AttendanceLoop(_, _, _)
AttendanceLoop(data, i, endIndex) ==
    IF i >= endIndex \/ i + 3 >= endIndex THEN <<>>
    ELSE AttendanceGroup(data, i) \o AttendanceLoop(data, i + 4, endIndex)

\* the indices of extractedData the loop of api.go:513-534 reads from i on
RECURSIVE AttendanceLoopReads(_, _, _)
AttendanceLoopReads(data, i, endIndex) ==
    IF i >= endIndex \/ i + 3 >= endIndex THEN {}
    ELSE (IF Atoi(TrimPrefix(Tok(data, i), LecturePrefix)).ok
          THEN {i, i + 1, i + 2, i + 3} ELSE {i})
         \cup AttendanceLoopReads(data, i + 4, endIndex)

\* the indices api.go:505-548 reads of a stream
AttendanceReads(data) ==
    IF Len(data) < MinAttendanceTokens THEN {}
    ELSE AttendanceLoopReads(data, 4, Len(data) - 2) \cup {Len(data) - 2, Len(data) - 1}

AttendanceTotal(data) ==
    LET n == Atoi(TrimPrefix(Tok(data, Len(data) - 2), TotalPrefix))
    IN  IF n.ok THEN n.val ELSE 0

\* a percentage that knows the spelling Attendance only
AttendancePercentOneSpelling(data) ==
    LET p == TrimSuffix(Tok(data, Len(data) - 1), SuffixAttendance)
        n == Atoi(TrimSpace(p))
    IN  IF n.ok THEN n.val ELSE 0

AttendancePercent(data) ==
    LET p == TrimSuffix(TrimSuffix(Tok(data, Len(data) - 1), SuffixAttandence),
                        SuffixAttendance)
        n == Atoi(TrimSpace(p))
    IN  IF n.ok THEN n.val ELSE 0

\* the branch of api.go:504-554 on the matching course
StoreAttendance(course, data) ==
    IF Len(data) < MinAttendanceTokens
    THEN [course EXCEPT !.Attendance = <<>>]
    ELSE [course EXCEPT !.TotalLectures = AttendanceTotal(data),
                        !.AttendancePercentage = AttendancePercent(data),
                        !.Attendance = AttendanceLoop(data, 4, Len(data) - 2)]

(***************************************************************************)
(* More of strings and strconv, for the transcript                         *)
(***************************************************************************)
\* strings.Fields: the maximal runs of non-space characters
RECURSIVE Fields(_)
Fields(s) ==
    IF s = <<>> THEN <<>>
    ELSE IF IsSpace(s[1]) THEN Fields(Tail(s))
    ELSE LET stops == {i \in 1..Len(s) : IsSpace(s[i])}
             stop  == IF stops = {} THEN Len(s) + 1
                      ELSE CHOOSE i \in stops : \A j \in stops : i <= j
         IN  <<SubSeq(s, 1, stop - 1)>> \o Fields(SubSeq(s, stop, Len(s)))

\* strings.Split(s, sep), sep not empty
RECURSIVE Split(_, _)
Split(s, sep) ==
    LET at == Index(s, sep)
    IN  IF at = 0 THEN <<s>>
        ELSE <<SubSeq(s, 1, at - 1)>> \o Split(SubSeq(s, at + Len(sep), Len(s)), sep)

\* strings.Replace(s, old, "", 1)
RemoveFirst(s, old) ==
    LET at == Index(s, old)
    IN  IF at = 0 THEN s
        ELSE SubSeq(s, 1, at - 1) \o SubSeq(s, at + Len(old), Len(s))

\* A float is held as a whole number of thousandths: 3.5 is 3500.  The
\* values of the model have at most three decimals; digits past the third
\* are dropped, and the binary rounding of float32 is not modelled.
FracValue(f) ==
    LET d == [k \in 1..3 |-> IF k <= Len(f) THEN DigitVal(f[k]) ELSE 0]
    IN  100 * d[1] + 10 * d[2] + d[3]

\* strconv.ParseFloat for plain decimals: sign, digits, optional point, digits
ParseFloat(s) ==
    LET signed == s # <<>> /\ s[1] \in {"+", "-"}
        body   == IF signed THEN Tail(s) ELSE s
        dot    == Index(body, <<".">>)
        whole  == IF dot = 0 THEN body ELSE SubSeq(body, 1, dot - 1)
        frac   == IF dot = 0 THEN <<>> ELSE SubSeq(body, dot + 1, Len(body))
        mag    == 1000 * DigitsValue(whole) + FracValue(frac)
    IN  IF AllDigits(whole) /\ AllDigits(frac) /\ Len(whole) + Len(frac) > 0
        THEN [ok |-> TRUE, val |-> IF signed /\ s[1] = "-" THEN 0 - mag ELSE mag]
        ELSE [ok |-> FALSE, val |-> 0]

(***************************************************************************)
(* Maps of Go as functions                                                 *)
(***************************************************************************)
EmptyMap == <<>>

MapPut(m, k, v) == [x \in (DOMAIN m) \cup {k} |-> IF x = k THEN v ELSE m[x]]

(***************************************************************************)
(* parseAndSortSemesters (session file:297-337)                            *)
(***************************************************************************)
WordSpring == <<"s","p","r","i","n","g">>

WordSummer == <<"s","u","m","m","e","r">>

WordFall == <<"f","a","l","l">>

\* the (year, season) of one semester, ok = FALSE when the loop skips it
SemesterKeyOf(sem) ==
    LET parts  == Fields(sem.Name)
        year   == IF Len(parts) < 2 THEN [ok |-> FALSE, val |-> 0] ELSE Atoi(parts[2])
        first  == IF Len(parts) < 2 THEN <<>> ELSE ToLower(parts[1])
        season == CASE first = WordSpring -> 1
                    [] first = WordSummer -> 2
                    [] first = WordFall   -> 3
                    [] OTHER              -> 0
    IN  [ok |-> Len(parts) >= 2 /\ year.ok /\ season # 0,
         semester |-> sem, year |-> year.val, season |-> season]

\* a comparison that looks at the year only
SemesterLessByYear(a, b) == a.year < b.year

\* the comparison handed to sort.Slice
SemesterLess(a, b) ==
    IF a.year = b.year THEN a.season < b.season ELSE a.year < b.year

\* the keys the loop appends
SemesterKeys(semesterData) ==
    {SemesterKeyOf(sem) : sem \in {x \in DOMAIN semesterData : SemesterKeyOf(x).ok}}

\* Every sequence parseAndSortSemesters can return: the map is ranged over in
\* no fixed order and sort.Slice is not stable, so keys that compare equal
\* come out in any order.
parseAndSortSemesters(semesterData) ==
    LET keys == SemesterKeys(semesterData)
        n    == Cardinality(keys)
    IN  {q \in [1..n -> keys] :
            /\ \A i, j \in 1..n : i # j => q[i] # q[j]
            /\ \A i, j \in 1..n : i < j => ~SemesterLess(q[j], q[i])}

(***************************************************************************)
(* parseTranscript (api.go:701-832)                                        *)
(***************************************************************************)
HeaderLiterals ==
    { <<"C","o","u","r","s","e"," ","C","o","d","e">>,
      <<"C","o","u","r","s","e"," ","T","i","t","l","e">>,
      <<"C","r","."," ","H","r","s">>,
      <<"G","r","a","d","e">>,
      <<"G",".","P",".">> }

SeasonFall == <<"F","a","l","l">>

SeasonSpring == <<"S","p","r","i","n","g">>

SeasonSummer == <<"S","u","m","m","e","r">>

LabelEarned == <<"C","r","."," ","H","r","s","."," ","E","a","r","n","e","d",":">>

LabelCGPA == <<"C","G","P","A",":">>

LabelSGPA == <<"S","G","P","A",":">>

LiteralCourseCode == <<"C","o","u","r","s","e"," ","C","o","d","e">>

RepeatMarker == <<"[","R","]">>

GradeF == <<"F">>

zeroGrades ==
    { <<"P">>, <<"I">>, <<"W">>, <<"S","A">>, <<"S">>, <<"N","C">>, <<"F">> }

\* a closure that does not know the grade SA
isZeroGradePointGradeWithoutSA(grade) == grade \in zeroGrades \ { <<"S","A">> }

isZeroGradePointGrade(grade) == grade \in zeroGrades

NewSemester(name) == [Name |-> name, CreditHoursEarned |-> 0, CGPA |-> 0, SGPA |-> 0]

\* the locals of parseTranscript before the loop
ParserInit ==
    [i |-> 0, semesterData |-> EmptyMap, currentSemester |-> NewSemester(<<>>),
     courses |-> <<>>, totalCreditHours |-> 0, totalCreditHoursForGrade |-> 0,
     totalGradePoints |-> 0, rule |-> "start"]

\* a flush that stores the course list whatever it and the name are
FlushAlways(st) == MapPut(st.semesterData, st.currentSemester, st.courses)

\* if currentSemester.Name != "" && len(courses) > 0 { semesterData[...] = courses }
Flush(st) ==
    IF st.currentSemester.Name # <<>> /\ Len(st.courses) > 0
    THEN MapPut(st.semesterData, st.currentSemester, st.courses)
    ELSE st.semesterData

\* a heading test that leaves a line with the credit-hours label to that rule
IsSeasonHeadingUnlessLabel(line) ==
    /\ Contains(line, SeasonFall) \/ Contains(line, SeasonSpring) \/ Contains(line, SeasonSummer)
    /\ ~Contains(line, LabelEarned)

IsSeasonHeading(line) ==
    Contains(line, SeasonFall) \/ Contains(line, SeasonSpring) \/ Contains(line, SeasonSummer)

\* api.go:734-750
EarnedStep(st, line) ==
    LET parts  == Split(line, LabelCGPA)
        hours  == Atoi(TrimSpace(RemoveFirst(parts[1], LabelEarned)))
        cgpa   == ParseFloat(TrimSpace(parts[2]))
        sem1   == IF hours.ok
                  THEN [st.currentSemester EXCEPT !.CreditHoursEarned = hours.val]
                  ELSE st.currentSemester
        sem2   == IF cgpa.ok THEN [sem1 EXCEPT !.CGPA = cgpa.val] ELSE sem1
    IN  IF Len(parts) >= 2
        THEN [st EXCEPT !.currentSemester = sem2,
                        !.totalCreditHours = IF hours.ok THEN @ + hours.val ELSE @,
                        !.i = @ + 1, !.rule = "earned"]
        ELSE [st EXCEPT !.i = @ + 1, !.rule = "earned"]

\* api.go:752-759
SgpaStep(st, line) ==
    LET sgpa == ParseFloat(TrimSpace(RemoveFirst(line, LabelSGPA)))
    IN  [st EXCEPT !.currentSemester = IF sgpa.ok THEN [@ EXCEPT !.SGPA = sgpa.val] ELSE @,
                   !.i = @ + 1, !.rule = "sgpa"]

\* a lookahead that is taken as the grade point whatever it is
LookaheadAlwaysGradePoint(gradePointStr) == TRUE

\* api.go:780-785: the lookahead token is taken as the grade point
LookaheadIsGradePoint(gradePointStr) ==
    /\ ParseFloat(gradePointStr).ok
    /\ ~Contains(gradePointStr, LabelEarned)
    /\ ~Contains(gradePointStr, SeasonFall)
    /\ ~Contains(gradePointStr, SeasonSpring)
    /\ ~Contains(gradePointStr, SeasonSummer)
    /\ ~Contains(gradePointStr, LiteralCourseCode)

\* a row that always takes the token after the grade with it
FieldsToSkipAlwaysFive(taken) == 5

\* fieldsToSkip: 4 (code, title, credit hours, grade), 5 once the lookahead
\* token has been taken as the grade point
FieldsToSkip(taken) == IF taken THEN 5 ELSE 4

\* the indices of extractedData one iteration of the loop reads, from i = st.i
TranscriptReads(st, data) ==
    LET line   == TrimSpace(Tok(data, st.i))
        early  == \/ line \in HeaderLiterals
                  \/ IsSeasonHeading(line)
                  \/ Contains(line, LabelEarned)
                  \/ Contains(line, LabelSGPA)
        row    == ~early /\ st.i + 3 < Len(data)
        parsed == row /\ Atoi(TrimSpace(Tok(data, st.i + 2))).ok
        look   == /\ parsed
                  /\ ~isZeroGradePointGrade(TrimSpace(Tok(data, st.i + 3)))
                  /\ st.i + 4 < Len(data)
    IN  {st.i} \cup (IF row THEN {st.i + 1, st.i + 2, st.i + 3} ELSE {})
               \cup (IF look THEN {st.i + 4} ELSE {})

\* api.go:768-814, once the credit hours have parsed
CourseStep(st, data, creditHours) ==
    LET code    == TrimSpace(Tok(data, st.i))
        title   == TrimSpace(Tok(data, st.i + 1))
        grade   == TrimSpace(Tok(data, st.i + 3))
        zero    == isZeroGradePointGrade(grade)
        look    == IF ~zero /\ st.i + 4 < Len(data)
                   THEN TrimSpace(Tok(data, st.i + 4)) ELSE <<>>
        taken   == ~zero /\ st.i + 4 < Len(data) /\ LookaheadIsGradePoint(look)
        gradePoint   == IF taken THEN ParseFloat(look).val ELSE 0
        fieldsToSkip == FieldsToSkip(taken)
        forGrade == IF zero
                    THEN (IF grade = GradeF /\ ~Contains(title, RepeatMarker)
                          THEN creditHours ELSE 0)
                    ELSE (IF taken /\ gradePoint # 0 THEN creditHours ELSE 0)
        course  == [Code |-> code, Title |-> title, CreditHours |-> creditHours,
                    Grade |-> grade, GradePoint |-> gradePoint]
    IN  [st EXCEPT !.courses = Append(@, course),
                   !.totalCreditHoursForGrade = @ + forGrade,
                   !.totalGradePoints = IF ~zero /\ gradePoint > 0 THEN @ + gradePoint ELSE @,
                   !.i = @ + fieldsToSkip,
                   !.rule = "course"]

\* one iteration of the loop of api.go:715-818
TranscriptStep(st, data) ==
    LET line == TrimSpace(Tok(data, st.i))
    IN  IF line \in HeaderLiterals
        THEN [st EXCEPT !.i = @ + 1, !.rule = "header"]
        ELSE IF IsSeasonHeading(line)
        THEN [st EXCEPT !.semesterData = Flush(st),
                        !.currentSemester = NewSemester(line),
                        !.courses = <<>>,
                        !.i = @ + 1, !.rule = "season"]
        ELSE IF Contains(line, LabelEarned) THEN EarnedStep(st, line)
        ELSE IF Contains(line, LabelSGPA) THEN SgpaStep(st, line)
        ELSE IF st.i + 3 < Len(data) /\ Atoi(TrimSpace(Tok(data, st.i + 2))).ok
        THEN CourseStep(st, data, Atoi(TrimSpace(Tok(data, st.i + 2))).val)
        ELSE [st EXCEPT !.i = @ + 1, !.rule = "skip"]

RECURSIVE TranscriptLoop(_, _)
TranscriptLoop(st, data) ==
    IF st.i < Len(data) THEN TranscriptLoop(TranscriptStep(st, data), data) ELSE st

\* the map built by the loop and the flush at stream end (api.go:820-822)
TranscriptSemesterData(data) ==
    Flush(TranscriptLoop(ParserInit, data))

\* api.go:824-829: the map stored on the Session holds the keys of semesterKeys only
RekeyedSemesters(semesterData) ==
    [sem \in {k.semester : k \in SemesterKeys(semesterData)} |-> semesterData[sem]]

\* parseTranscript(s, extractedData): it always returns nil
parseTranscript(s, extractedData) ==
    [s EXCEPT !.Student.Transcript.Semester =
        RekeyedSemesters(TranscriptSemesterData(extractedData))]

(***************************************************************************)
(* Login (api.go:28-150, session file:182-191)                             *)
(***************************************************************************)
ErrNone == "ErrNone"

ErrInvalidCredentials == "ErrInvalidCredentials"

ErrNetworkIssue == "ErrNetworkIssue"

ErrParsingError == "ErrParsingError"

MailDomain == <<"@","u","m","t",".","e","d","u",".","p","k">>

\* the i-th match (from 0) of a selector, or nothing when there are fewer matches
Match(texts, i) == IF i < Len(texts) THEN <<texts[i + 1]>> ELSE <<>>

\* the field after the i-th match of a selector was visited, if there is one
Scraped(old, texts, i) == IF Match(texts, i) = <<>> THEN old ELSE Match(texts, i)[1]

First(texts) == IF texts = <<>> THEN <<>> ELSE texts[1]

\* api.go:104-147: the positional scrape of the dashboard document
ScrapeProfile(st, doc) ==
    [st EXCEPT
        !.Name = Scraped(@, doc.primary, 0),
        !.Batch = Scraped(@, doc.primary, 1),
        !.RequestedCreditHours = Scraped(@, doc.primary, 2),
        !.Program = Scraped(@, doc.success, 0),
        !.CgpaEarned = IF Match(doc.success, 1) = <<>> THEN @
                       ELSE IF st.Transcript.TotalCGPA # <<>> THEN st.Transcript.TotalCGPA
                       ELSE doc.success[2],
        !.RequiredCreditHours = Scraped(@, doc.success, 2),
        !.ProgramLevel = Scraped(@, doc.info, 0),
        !.CompletedCreditHours =
                       IF Match(doc.info, 1) = <<>> THEN @
                       ELSE IF st.Transcript.CreditHoursEarned # <<>>
                            THEN st.Transcript.CreditHoursEarned
                       ELSE doc.info[2],
        !.CurrentSemester = First(doc.warning),
        !.MaxAllowedCreditHours = First(doc.danger)]

\* fetchUserData: env.dash is what happens to the dashboard request
fetchUserData(s, env) ==
    IF s.Cookies = 0 THEN [s |-> s, err |-> "noCookies", trace |-> <<>>]
    ELSE IF env.dash = "newRequest" THEN [s |-> s, err |-> "newRequest", trace |-> <<>>]
    ELSE IF env.dash = "transport"
         THEN [s |-> s, err |-> "transport", trace |-> <<"GET dashboard">>]
    ELSE IF env.dash = "parse"
         THEN [s |-> s, err |-> "parse", trace |-> <<"GET dashboard">>]
    ELSE [s |-> [s EXCEPT !.Student = ScrapeProfile(@, env.doc)],
          err |-> "nil", trace |-> <<"GET dashboard">>]

\* a loginAPI that stores the id, the email and the cookies before it counts
\* the cookies
loginAPIStoresFirst(s, credentials, env) ==
    IF credentials.StudentID = <<>> \/ credentials.Password = <<>>
    THEN [s |-> s, cookies |-> 0, code |-> ErrInvalidCredentials, trace |-> <<>>]
    ELSE IF ~env.getOK
    THEN [s |-> s, cookies |-> 0, code |-> ErrNetworkIssue, trace |-> <<"GET login">>]
    ELSE IF ~env.postOK
    THEN [s |-> s, cookies |-> 0, code |-> ErrNetworkIssue,
          trace |-> <<"GET login", "POST login">>]
    ELSE LET s1 == [s EXCEPT !.Student.ID = credentials.StudentID,
                             !.Student.Email = ToUpper(credentials.StudentID) \o MailDomain,
                             !.Cookies = env.jar]
             r  == fetchUserData(s1, env)
         IN  IF env.jar < MinLoginCookies
             THEN [s |-> s1, cookies |-> 0, code |-> ErrInvalidCredentials,
                   trace |-> <<"GET login", "POST login">>]
             ELSE [s |-> r.s, cookies |-> env.jar,
                   code |-> IF r.err # "nil" THEN ErrParsingError ELSE ErrNone,
                   trace |-> <<"GET login", "POST login">> \o r.trace]

\* loginAPI: the cookies returned, the code, the session as it leaves it
loginAPI(s, credentials, env) ==
    IF credentials.StudentID = <<>> \/ credentials.Password = <<>>
    THEN [s |-> s, cookies |-> 0, code |-> ErrInvalidCredentials, trace |-> <<>>]
    ELSE IF ~env.getOK
    THEN [s |-> s, cookies |-> 0, code |-> ErrNetworkIssue, trace |-> <<"GET login">>]
    ELSE IF ~env.postOK
    THEN [s |-> s, cookies |-> 0, code |-> ErrNetworkIssue,
          trace |-> <<"GET login", "POST login">>]
    ELSE IF env.jar < MinLoginCookies
    THEN [s |-> s, cookies |-> 0, code |-> ErrInvalidCredentials,
          trace |-> <<"GET login", "POST login">>]
    ELSE LET s1 == [s EXCEPT !.Student.ID = credentials.StudentID,
                             !.Student.Email = ToUpper(credentials.StudentID) \o MailDomain,
                             !.Cookies = env.jar]
             r  == fetchUserData(s1, env)
         IN  [s |-> r.s, cookies |-> env.jar,
              code |-> IF r.err # "nil" THEN ErrParsingError ELSE ErrNone,
              trace |-> <<"GET login", "POST login">> \o r.trace]

\* a Login that leaves the Session as it was unless the code is ErrNone
SessionLoginRollsBack(s, creds, credentials, rememberMe, env) ==
    LET r == loginAPI(s, credentials, env)
    IN  [s     |-> IF r.code = ErrNone THEN [r.s EXCEPT !.Cookies = r.cookies] ELSE s,
         creds |-> IF r.code = ErrNone /\ rememberMe THEN <<credentials>> ELSE creds,
         code  |-> r.code,
         trace |-> r.trace]

\* Session.Login: the session, the creds file and the code it returns
SessionLogin(s, creds, credentials, rememberMe, env) ==
    LET r == loginAPI(s, credentials, env)
    IN  [s     |-> IF r.code = ErrNone THEN [r.s EXCEPT !.Cookies = r.cookies] ELSE r.s,
         creds |-> IF r.code = ErrNone /\ rememberMe THEN <<credentials>> ELSE creds,
         code  |-> r.code,
         trace |-> r.trace]

(***************************************************************************)
(* GetCourses and GetCourseAssessments (api.go:152-332)                    *)
(***************************************************************************)
\* a fetchUserCourses that does not look at the cookies
fetchUserCoursesUnchecked(s, env) ==
    LET s1 == [s EXCEPT !.Student.Courses = <<>>]
    IN  IF env.fail = "newRequest"
        THEN [s |-> s1, err |-> "errRequest", trace |-> <<>>]
        ELSE IF env.fail \in {"transport", "parse"}
        THEN [s |-> s1, err |-> "errRequest", trace |-> <<"GET courses">>]
        ELSE [s |-> [s1 EXCEPT !.Student.Courses =
                       [i \in 1..Len(env.page) |->
                           NewCourse(env.page[i].ID, env.page[i].Code)]],
              err |-> "nil", trace |-> <<"GET courses">>]

\* fetchUserCourses: env.fail is what goes wrong with the request, env.page
\* the rows of the courses table that have at least 9 cells
fetchUserCourses(s, env) ==
    IF s.Cookies = 0 THEN [s |-> s, err |-> "errNoCookies", trace |-> <<>>]
    ELSE LET s1 == [s EXCEPT !.Student.Courses = <<>>]
         IN  IF env.fail = "newRequest"
             THEN [s |-> s1, err |-> "errRequest", trace |-> <<>>]
             ELSE IF env.fail \in {"transport", "parse"}
             THEN [s |-> s1, err |-> "errRequest", trace |-> <<"GET courses">>]
             ELSE [s |-> [s1 EXCEPT !.Student.Courses =
                            [i \in 1..Len(env.page) |->
                                NewCourse(env.page[i].ID, env.page[i].Code)]],
                   err |-> "nil", trace |-> <<"GET courses">>]

\* api.go:300-325: one row of an assessment table (nothing when the name is empty)
AssessmentOfRow(cells) ==
    LET name     == TrimSpace(cells[1])
        total    == ParseFloat(TrimSpace(cells[2]))
        obtained == ParseFloat(TrimSpace(cells[3]))
    IN  IF name = <<>> THEN <<>>
        ELSE << [name |-> name,
                 obtainedMarks |-> IF obtained.ok THEN obtained.val ELSE 0,
                 totalMarks |-> IF total.ok THEN total.val ELSE 0,
                 assignedDate |-> TrimSpace(cells[4])] >>

RECURSIVE AssessmentRecords(_)
AssessmentRecords(rows) ==
    IF rows = <<>> THEN <<>>
    ELSE AssessmentOfRow(Head(rows)) \o AssessmentRecords(Tail(rows))

\* fetchCourseAssessments: env.rows are the data rows (4 cells or more) of
\* the tables that carry the four headers
fetchCourseAssessments(s, courseId, env) ==
    IF s.Cookies = 0 THEN [s |-> s, err |-> "errNoCookies", trace |-> <<>>]
    ELSE IF env.fail = "newRequest" THEN [s |-> s, err |-> "errRequest", trace |-> <<>>]
    ELSE IF env.fail \in {"transport", "read", "parse"}
    THEN [s |-> s, err |-> "errRequest", trace |-> <<"GET assessments">>]
    ELSE LET index == getCourseIndex(s, courseId)
         IN  IF index = 0
             THEN [s |-> s, err |-> "errNotFound", trace |-> <<"GET assessments">>]
             ELSE [s |-> [s EXCEPT !.Student.Courses[index].Assessment =
                                        AssessmentRecords(env.rows)],
                   err |-> "nil", trace |-> <<"GET assessments">>]

(***************************************************************************)
(* GetCourseAttendance (api.go:334-559)                                    *)
(***************************************************************************)
\* api.go:335-348: what happens before the retry loop
\* a precheck that serves the stored list whatever refresh is
AttendancePrecheckIgnoresRefresh(s, refresh, courseId) ==
    IF s.Cookies = 0 THEN "errNoCookies"
    ELSE IF getCourseIndex(s, courseId) = 0 THEN (IF refresh THEN "loop" ELSE "errNotFound")
    ELSE IF Len(s.Student.Courses[getCourseIndex(s, courseId)].Attendance) > 0 THEN "nil"
    ELSE "loop"

AttendancePrecheck(s, refresh, courseId) ==
    IF s.Cookies = 0 THEN "errNoCookies"
    ELSE IF ~refresh /\ getCourseIndex(s, courseId) = 0 THEN "errNotFound"
    ELSE IF ~refresh /\ Len(s.Student.Courses[getCourseIndex(s, courseId)].Attendance) > 0
    THEN "nil"
    ELSE "loop"

\* a test that looks at __VIEWSTATE only
HiddenMissingViewStateOnly(env) == env.viewState = ""

HiddenMissing(env) == env.viewState = "" \/ env.viewStateGen = "" \/ env.eventValidation = ""

\* Why one pass of the loop body ends, in the order the code tests: env.fail
\* names the call that fails (or "none"), env.viewState and the two others
\* are the hidden values of the viewer page, env.bodyLen is the length of the
\* POST's body.
AttendanceCause(env) ==
    IF env.fail \in {"newRequest1", "prime", "newRequest2", "viewer", "readViewer",
                     "parseViewer"} THEN env.fail
    ELSE IF HiddenMissing(env) THEN "hidden"
    ELSE IF env.fail \in {"newRequest3", "post", "readPost"} THEN env.fail
    ELSE IF env.bodyLen < SizeThreshold THEN "small"
    ELSE IF env.fail = "parsePost" THEN "parsePost"
    ELSE "accepted"

\* the requests sent and the sleeps taken by a pass that ends for `cause`
AttendanceTrace(cause) ==
    CASE cause = "newRequest1" -> <<"sleep">>
      [] cause \in {"prime", "newRequest2"} -> <<"GET prime", "sleep">>
      [] cause \in {"viewer", "readViewer", "parseViewer", "hidden", "newRequest3"} ->
            <<"GET prime", "GET viewer", "sleep">>
      [] cause \in {"post", "readPost", "small"} ->
            <<"GET prime", "GET viewer", "POST viewer", "sleep">>
      [] OTHER -> <<"GET prime", "GET viewer", "POST viewer">>

\* an accepted pass that stores the stream in the first course of the list
\* when no course has the ID, and then reports that none has
AttendanceAcceptedStoresAnyway(s, courseId, data) ==
    LET index == getCourseIndex(s, courseId)
    IN  IF index = 0
        THEN [s |-> IF Len(s.Student.Courses) = 0 THEN s
                    ELSE [s EXCEPT !.Student.Courses[1] = StoreAttendance(@, data)],
              err |-> "errNotFound"]
        ELSE [s |-> [s EXCEPT !.Student.Courses[index] = StoreAttendance(@, data)],
              err |-> "nil"]

\* api.go:500-556: an accepted pass stores the parsed stream and returns
AttendanceAccepted(s, courseId, data) ==
    LET index == getCourseIndex(s, courseId)
    IN  IF index = 0 THEN [s |-> s, err |-> "errNotFound"]
        ELSE [s |-> [s EXCEPT !.Student.Courses[index] = StoreAttendance(@, data)],
              err |-> "nil"]

\* a loop that makes one pass more than maxRetries
LoopContinuesOnceMore(n) == n <= maxRetries

\* for range maxRetries: another pass is made
LoopContinues(n) == n < maxRetries

(***************************************************************************)
(* The transcript cache (session file:225-286, 339-399)                    *)
(***************************************************************************)
RECURSIVE NatDigits(_)
NatDigits(n) ==
    IF n < 10 THEN <<Digits[n + 1]>> ELSE NatDigits(n \div 10) \o <<Digits[(n % 10) + 1]>>

\* strconv.Itoa
Itoa(n) == IF n < 0 THEN <<"-">> \o NatDigits(0 - n) ELSE NatDigits(n)

\* fmt.Sprintf("%.2f", f) of a float held in thousandths. A value half way
\* between two hundredths is rounded away from zero here; in the program its
\* rounding depends on the float32 nearest to it, and no input of the model
\* is such a value.
FormatFloat2(f) ==
    LET mag == IF f < 0 THEN 0 - f ELSE f
        h   == (mag + 5) \div 10
        txt == NatDigits(h \div 100) \o <<".">> \o
               <<Digits[((h \div 10) % 10) + 1], Digits[(h % 10) + 1]>>
    IN  IF f < 0 /\ h # 0 THEN <<"-">> \o txt ELSE txt

SerializableSemesterOf(t, semester) ==
    [Name |-> semester.Name,
     CreditHoursEarned |-> Itoa(semester.CreditHoursEarned),
     CGPA |-> FormatFloat2(semester.CGPA),
     SGPA |-> FormatFloat2(semester.SGPA),
     Courses |-> t.Semester[semester]]

\* every order in which a range over the map can visit its keys
MapOrders(m) ==
    LET n == Cardinality(DOMAIN m)
    IN  {q \in [1..n -> DOMAIN m] : \A i, j \in 1..n : i # j => q[i] # q[j]}

\* Transcript.ToSerializable: one result for each order of the range over the map
ToSerializable(t) ==
    {[Semesters |-> [i \in 1..Len(q) |-> SerializableSemesterOf(t, q[i])],
      CreditHoursEarned |-> t.CreditHoursEarned,
      CreditHoursForGPA |-> t.CreditHoursForGPA,
      TotalGradePoints |-> t.TotalGradePoints,
      TotalCGPA |-> t.TotalCGPA] : q \in MapOrders(t.Semester)}

SemesterOfSerializable(ss) ==
    LET creditHours == Atoi(ss.CreditHoursEarned)
        cgpa == ParseFloat(ss.CGPA)
        sgpa == ParseFloat(ss.SGPA)
    IN  [Name |-> ss.Name, CreditHoursEarned |-> creditHours.val,
         CGPA |-> cgpa.val, SGPA |-> sgpa.val]

RECURSIVE SemesterMapOf(_, _)
SemesterMapOf(semesters, m) ==
    IF semesters = <<>> THEN m
    ELSE SemesterMapOf(Tail(semesters),
                       MapPut(m, SemesterOfSerializable(Head(semesters)),
                              Head(semesters).Courses))

\* SerializableTranscript.ToTranscript
ToTranscript(st) ==
    [Semester |-> SemesterMapOf(st.Semesters, EmptyMap),
     CreditHoursEarned |-> st.CreditHoursEarned,
     CreditHoursForGPA |-> st.CreditHoursForGPA,
     TotalGradePoints |-> st.TotalGradePoints,
     TotalCGPA |-> st.TotalCGPA]

\* The cache file: no element when there is no file, else the one
\* SerializableTranscript it holds (json.MarshalIndent and json.Unmarshal
\* are taken to give back the value they were given).
NoFile == <<>>

\* loadTranscriptCache: the file holds what saveTranscriptCache wrote
loadTranscriptCache(s, file) ==
    IF file = NoFile THEN [s |-> s, err |-> "errRead"]
    ELSE [s |-> [s EXCEPT !.Student.Transcript = ToTranscript(file[1])], err |-> "nil"]

\* saveTranscriptCache: the files it can leave, saveOK telling whether the
\* directory and the file could be written
saveTranscriptCache(s, file, saveOK) ==
    IF saveOK THEN {<<st>> : st \in ToSerializable(s.Student.Transcript)} ELSE {file}

(***************************************************************************)
(* GetTranscript (api.go:561-699)                                          *)
(***************************************************************************)
SpanEarned == <<"C","r","e","d","i","t"," ","H","o","u","r","s"," ","E","a","r","n","e","d"," ",":">>

SpanForGPA == <<"C","r","e","d","i","t"," ","H","o","u","r","s"," ","f","o","r"," ","G","P","A"," ",":">>

SpanPoints == <<"T","o","t","a","l"," ","G","r","a","d","e"," ","P","o","i","n","t","s"," ",":">>

SpanCGPA == <<"C","G","P","A"," ",":">>

SpanSlash == <<" ", "/">>

\* the body of the loop of parseSpanData for index i (from 0)
SpanStep(tr, spans, i) ==
    LET span == TrimSpace(Tok(spans, i))
        next == IF i + 1 < Len(spans) THEN TrimSpace(Tok(spans, i + 1)) ELSE <<>>
        has  == i + 1 < Len(spans)
    IN  [tr EXCEPT
            !.CreditHoursEarned = IF span = SpanEarned /\ has THEN next ELSE @,
            !.CreditHoursForGPA = IF span = SpanForGPA /\ has THEN next ELSE @,
            !.TotalGradePoints = IF span = SpanPoints /\ has THEN next ELSE @,
            !.TotalCGPA = IF span = SpanCGPA /\ has
                          THEN TrimSpace(Split(next, SpanSlash)[1]) ELSE @]

RECURSIVE SpanLoop(_, _, _)
SpanLoop(tr, spans, i) ==
    IF i >= Len(spans) THEN tr ELSE SpanLoop(SpanStep(tr, spans, i), spans, i + 1)

\* parseSpanData(s, spans): it always returns nil
parseSpanData(s, spans) ==
    [s EXCEPT !.Student.Transcript = SpanLoop(@, spans, 0)]

\* a precheck that loads the cache file whatever refresh is
TranscriptPrecheckIgnoresRefresh(s, refresh, file) ==
    IF loadTranscriptCache(s, file).err = "nil"
    THEN [s |-> loadTranscriptCache(s, file).s, next |-> "nil"]
    ELSE IF s.Cookies = 0 THEN [s |-> s, next |-> "errNoCookies"]
    ELSE [s |-> s, next |-> "loop"]

\* api.go:562-570: what happens before the retry loop
TranscriptPrecheck(s, refresh, file) ==
    IF ~refresh /\ loadTranscriptCache(s, file).err = "nil"
    THEN [s |-> loadTranscriptCache(s, file).s, next |-> "nil"]
    ELSE IF s.Cookies = 0 THEN [s |-> s, next |-> "errNoCookies"]
    ELSE [s |-> s, next |-> "loop"]

\* Why one pass of the loop body ends, in the order the code tests: env.fail
\* names the call that fails (or "none"), env.bodyLen is the length of the
\* body of the second GET, env.data the token stream extracted from it.
TranscriptCause(env) ==
    IF env.fail \in {"newRequest1", "prime", "readPrime", "writeFile", "newRequest2",
                     "viewer", "readViewer"} THEN env.fail
    ELSE IF env.bodyLen < SizeThreshold THEN "small"
    ELSE IF env.fail = "parseDoc" THEN "parseDoc"
    ELSE IF Len(env.data) = 0 THEN "noData"
    ELSE "accepted"

\* the requests sent by a pass that ends for `cause` (the loop never sleeps)
TranscriptTrace(cause) ==
    CASE cause = "newRequest1" -> <<>>
      [] cause \in {"prime", "readPrime", "writeFile", "newRequest2"} -> <<"GET prime">>
      [] OTHER -> <<"GET prime", "GET viewer">>

\* a pass that returns only when the cache file could be written
TranscriptReturnsIfSaved(cause, saveOK) == cause = "accepted" /\ saveOK

\* api.go:657-665: the pass returns nil once parseTranscript has run; what
\* saveTranscriptCache returns is printed and nothing more
TranscriptReturns(cause, saveOK) == cause = "accepted"

\* a loop that keeps the error of the first pass that failed
LastErrKeepsFirst(prev, why) == IF prev = "nil" THEN why ELSE prev

\* lastErr after a pass that ends for `why`: every continue assigns it
LastErrAfter(prev, why) == why

\* the session after a pass: parseSpanData runs once the document has
\* parsed, parseTranscript once the token stream is not empty
TranscriptPass(s, env) ==
    LET cause == TranscriptCause(env)
    IN  IF cause = "noData" THEN parseSpanData(s, env.spans)
        ELSE IF cause = "accepted"
             THEN parseTranscript(parseSpanData(s, env.spans), env.data)
        ELSE s

\* the loop of fetchTranscript from pass n + 1 on: pass 1 meets envs[1], the
\* passes after it meet envs[2]
RECURSIVE FetchTranscriptPasses(_, _, _)
FetchTranscriptPasses(s, envs, n) ==
    IF ~LoopContinues(n) THEN [s |-> s, err |-> "errExhausted"]
    ELSE LET env == IF n = 0 THEN envs[1] ELSE envs[2]
         IN  IF TranscriptReturns(TranscriptCause(env), env.saveOK)
             THEN [s |-> TranscriptPass(s, env), err |-> "nil"]
             ELSE FetchTranscriptPasses(TranscriptPass(s, env), envs, n + 1)

\* fetchTranscript(refresh) as one call: the Session it leaves and what it returns
fetchTranscript(s, refresh, file, envs) ==
    LET r == TranscriptPrecheck(s, refresh, file)
    IN  IF r.next = "loop" THEN FetchTranscriptPasses(r.s, envs, 0)
        ELSE [s |-> r.s, err |-> r.next]

(***************************************************************************)
(* What the caller passes and what the portal answers, in the model        *)
(***************************************************************************)
StudentIDs == { <<"f","1">>, <<"f","2">> }

GoodPassword == <<"p", "w">>

CredentialSets ==
    {[StudentID |-> id, Password |-> GoodPassword] : id \in StudentIDs}
    \cup {[StudentID |-> <<>>, Password |-> GoodPassword],
          [StudentID |-> <<"f","1">>, Password |-> <<>>]}

DocFull ==
    [primary |-> << <<"A","n","n">>, <<"B","2","1">>, <<"1","2">> >>,
     success |-> << <<"B","S","C","S">>, <<"3",".","1","0">>, <<"1","3","0">> >>,
     info    |-> << <<"U","G">>, <<"6","0">> >>,
     warning |-> << <<"F","a","l","l"," ","2","0","2","4">> >>,
     danger  |-> << <<"1","8">> >>]

DocShort ==
    [primary |-> << <<"B","o","b">> >>, success |-> <<>>, info |-> <<>>,
     warning |-> <<>>, danger |-> <<>>]

ProfileDocs == {DocFull, DocShort}

GoodLoginEnv ==
    [getOK |-> TRUE, postOK |-> TRUE, jar |-> MinLoginCookies, dash |-> "ok", doc |-> DocFull]

LoginEnvs ==
    {[GoodLoginEnv EXCEPT !.getOK = FALSE], [GoodLoginEnv EXCEPT !.postOK = FALSE]}
    \cup {[GoodLoginEnv EXCEPT !.jar = n, !.doc = doc] : n \in 0..MaxCookies, doc \in ProfileDocs}
    \cup {[GoodLoginEnv EXCEPT !.dash = d] : d \in {"newRequest", "transport", "parse"}}

CourseNames == <<"c1", "c2", "c3", "c4">>

CoursePage(n) == [i \in 1..n |-> [ID |-> CourseNames[i], Code |-> CourseNames[i]]]

\* the pages the portal serves: the first n courses
CoursePages == {CoursePage(n) : n \in 0..MaxCourses}

UnknownCourse == "cX"

\* the course IDs callers pass: the first two of the page, and one no page holds
CourseIdArgs == {CourseNames[1], CourseNames[2], UnknownCourse}

CoursesEnvs ==
    {[fail |-> f, page |-> <<>>] : f \in {"newRequest", "transport", "parse"}}
    \cup {[fail |-> "none", page |-> pg] : pg \in CoursePages}

AssessmentRows ==
    << << <<"Q","u","i","z"," ","1">>, <<"1","0">>, <<"7",".","5">>, <<"d","1">> >>,
       << <<>>, <<"1","0">>, <<"1">>, <<"d","2">> >> >>

AssessmentEnvs ==
    {[fail |-> f, rows |-> <<>>] : f \in {"newRequest", "transport", "read", "parse"}}
    \cup {[fail |-> "none", rows |-> AssessmentRows]}

\* attendance token streams of 5, 6 and 10 tokens
AttStreamFive ==
    << <<"S","r">>, <<"D","a","t","e">>, <<"S","t","a","t","u","s">>,
       <<"F","a","c","u","l","t","y">>,
       <<"T","o","t","a","l"," ","L","e","c","t","u","r","e","s"," ",":"," ","2">> >>

AttStreamSix ==
    << <<"S","r">>, <<"D","a","t","e">>, <<"S","t","a","t","u","s">>,
       <<"F","a","c","u","l","t","y">>,
       <<"T","o","t","a","l"," ","L","e","c","t","u","r","e","s"," ",":"," ","2">>,
       <<"5","0"," ","%"," ","A","t","t","a","n","d","e","n","c","e">> >>

AttStreamTen ==
    << <<"S","r">>, <<"D","a","t","e">>, <<"S","t","a","t","u","s">>,
       <<"F","a","c","u","l","t","y">>,
       <<"L","e","c","t","u","r","e"," ","N","o","."," ","1">>, <<"d","1">>,
       <<"p","r","e","s","e","n","t">>, <<"D","r"," ","A">>,
       <<"T","o","t","a","l"," ","L","e","c","t","u","r","e","s"," ",":"," ","1">>,
       <<"1","0","0"," ","%"," ","A","t","t","e","n","d","a","n","c","e">> >>

AttendanceStreams == {AttStreamFive, AttStreamSix, AttStreamTen}

AttendanceBaseEnv ==
    [fail |-> "none", viewState |-> "vs", viewStateGen |-> "vg", eventValidation |-> "ev",
     bodyLen |-> SizeThreshold, data |-> AttStreamTen]

AttendanceFailPoints ==
    {"newRequest1", "prime", "newRequest2", "viewer", "readViewer", "parseViewer",
     "newRequest3", "post", "readPost", "parsePost"}

\* every way a pass can end, on one token stream
AttendanceEnvs ==
    {[AttendanceBaseEnv EXCEPT !.fail = f] : f \in AttendanceFailPoints}
    \cup {[AttendanceBaseEnv EXCEPT !.viewState = a, !.viewStateGen = b,
                                    !.eventValidation = c, !.fail = f] :
            a \in {"", "vs"}, b \in {"", "vg"}, c \in {"", "ev"}, f \in {"none", "post"}}
    \cup {[AttendanceBaseEnv EXCEPT !.bodyLen = n] :
            n \in {0, SizeThreshold - 1, SizeThreshold, SizeThreshold + 1}}

\* an undersized body, and every token stream
AttendanceDataEnvs ==
    {[AttendanceBaseEnv EXCEPT !.bodyLen = SizeThreshold - 1]}
    \cup {[AttendanceBaseEnv EXCEPT !.data = d] : d \in AttendanceStreams}

\* one semester with one course
TrStreamOne ==
    << <<"F","a","l","l"," ","2","0","2","1">>, <<"C","S","1">>, <<"I","n","t","r","o">>,
       <<"3">>, <<"A">>, <<"4",".","0","0">>,
       <<"C","r","."," ","H","r","s","."," ","E","a","r","n","e","d",":"," ","3"," ","C","G","P","A",":"," ","3",".","4","5","6">>,
       <<"S","G","P","A",":"," ","3",".","4","5","6">> >>

SpansNone == <<>>

SpansAll ==
    << <<"C","r","e","d","i","t"," ","H","o","u","r","s"," ","E","a","r","n","e","d"," ",":">>,
       <<"9","0">>,
       <<"C","r","e","d","i","t"," ","H","o","u","r","s"," ","f","o","r"," ","G","P","A"," ",":">>,
       <<"8","7">>,
       <<"T","o","t","a","l"," ","G","r","a","d","e"," ","P","o","i","n","t","s"," ",":">>,
       <<"3","0","0",".","5">>, <<"C","G","P","A"," ",":">>,
       <<"3",".","4","5"," ","/"," ","4",".","0","0">> >>

TranscriptBaseEnv ==
    [fail |-> "none", bodyLen |-> SizeThreshold, spans |-> SpansAll,
     data |-> TrStreamOne, saveOK |-> TRUE]

TranscriptFailPoints ==
    {"newRequest1", "prime", "readPrime", "writeFile", "newRequest2", "viewer",
     "readViewer", "parseDoc"}

\* every way a pass can end, on one token stream
TranscriptEnvs ==
    {[TranscriptBaseEnv EXCEPT !.fail = f] : f \in TranscriptFailPoints}
    \cup {[TranscriptBaseEnv EXCEPT !.bodyLen = n] :
            n \in {0, SizeThreshold - 1, SizeThreshold, SizeThreshold + 1}}
    \cup {[TranscriptBaseEnv EXCEPT !.data = <<>>]}
    \cup {[TranscriptBaseEnv EXCEPT !.saveOK = FALSE]}

\* an undersized body, and an accepted pass
TranscriptDataEnvs ==
    {[TranscriptBaseEnv EXCEPT !.bodyLen = SizeThreshold - 1], TranscriptBaseEnv}

(***************************************************************************)
(* The terminal program: the model, its key handlers and its View          *)
(***************************************************************************)
\* characters typed into a field of the login form
MaxTyped == 1

\* commands running at once
MaxInFlight == 2

\* Sessions created by login commands
MaxSessions == 2

fieldStudentID == 0
fieldPassword == 1
fieldRememberMe == 2
fieldLoginButton == 3

ReasonLogin ==
    <<"L","o","g","g","i","n","g"," ","i","n",","," ","p","l","e","a","s","e"," ","w","a","i","t">>
ReasonLoading ==
    <<"L","o","a","d","i","n","g"," ","c","o","u","r","s","e","s",","," ","p","l","e","a","s","e"," ","w","a","i","t">>
ReasonRefreshing ==
    <<"R","e","f","r","e","s","h","i","n","g"," ","c","o","u","r","s","e","s",","," ","p","l","e","a","s","e"," ","w","a","i","t">>
ReasonTranscript ==
    <<"G","e","t","t","i","n","g"," ","t","r","a","n","s","c","r","i","p","t",","," ","p","l","e","a","s","e"," ","w","a","i","t">>
\* the Code of the course at an index of m.courses, as CoursePage names it
CourseCodeText(i) == <<"c">> \o Itoa(i + 1)
ReasonAttendance(courseName) ==
    <<"G","e","t","t","i","n","g"," ","a","t","t","e","n","d","a","n","c","e"," ","f","o","r"," ">>
        \o courseName \o <<".",".",".">>
ReasonAssessments(courseName) ==
    <<"G","e","t","t","i","n","g"," ","a","s","s","e","s","s","m","e","n","t","s"," ","f","o","r"," ">>
        \o courseName \o <<".",".",".">>
WordTranscript == <<"t","r","a","n","s","c","r","i","p","t">>
WordAttendance == <<"a","t","t","e","n","d","a","n","c","e">>
WordAssessments == <<"a","s","s","e","s","s","m","e","n","t","s">>

\* the model of ui.go; session is 0 for nil or the number of a Session, courses
\* is len(m.courses), loginResult is "nil" or the Code
NewModel(creds, err) ==
    LET shouldAutoLogin == ~err /\ creds.StudentID # <<>> /\ creds.Password # <<>>
    IN  [currentView |-> IF shouldAutoLogin THEN "LoadingView" ELSE "LoginView",
         Credentials |-> creds,
         rememberMe |-> shouldAutoLogin,
         focusedField |-> fieldStudentID,
         loginResult |-> "nil",
         session |-> 0,
         courses |-> 0,
         selectedCourse |-> 0,
         courseError |-> FALSE,
         loadingState |-> ReasonLogin]

\* what a handler returns: the model, the command it starts (none, or one),
\* whether it returns tea.Quit, and the files it has deleted ("none", "cache"
\* for transcript.json, "both" for creds.gob and transcript.json)
Handled(m2) == [m |-> m2, cmd |-> <<>>, quit |-> FALSE, deleted |-> "none"]
Starts(m2, name, refresh) ==
    [m |-> m2, cmd |-> <<[name |-> name, refresh |-> refresh]>>, quit |-> FALSE,
     deleted |-> "none"]
\* if !m.rememberMe { deleteTranscriptCache() }; return m, tea.Quit
Quits(m2) ==
    [m |-> m2, cmd |-> <<>>, quit |-> TRUE,
     deleted |-> IF m2.rememberMe THEN "none" ELSE "cache"]

Loading(m1, reason) == [m1 EXCEPT !.loadingState = reason, !.currentView = "LoadingView"]

resetToLogin(m1) ==
    [m1 EXCEPT !.rememberMe = FALSE, !.currentView = "LoginView", !.loginResult = "nil",
               !.Credentials = [StudentID |-> <<>>, Password |-> <<>>],
               !.focusedField = fieldStudentID, !.courses = 0, !.selectedCourse = 0,
               !.courseError = FALSE, !.session = 0]

\* a handler that calls resetToLogin: deleteCreds and deleteTranscriptCache
\* come first in it
LogsOut(m1) == [m |-> resetToLogin(m1), cmd |-> <<>>, quit |-> FALSE, deleted |-> "both"]

handleLoadingKeys(m1, flags, key) ==
    IF key \in {"ctrl+c", "q"} THEN Quits(m1)
    ELSE IF key = "esc"
            /\ (\/ Contains(m1.loadingState, WordTranscript)
                \/ Contains(m1.loadingState, WordAttendance)
                \/ Contains(m1.loadingState, WordAssessments))
            /\ m1.session # 0 /\ flags[m1.session]
    THEN Handled([m1 EXCEPT !.currentView = "CoursesView"])
    ELSE Handled(m1)

DropLast(s) == SubSeq(s, 1, Len(s) - 1)

handleLoginKeys(m1, key) ==
    IF key \in {"ctrl+c", "q"} THEN Quits(m1)
    ELSE IF key = "esc" THEN Handled(m1)
    ELSE IF key \in {"tab", "down"}
    THEN Handled([m1 EXCEPT !.focusedField = (@ + 1) % 4])
    ELSE IF key \in {"shift+tab", "up"}
    THEN Handled([m1 EXCEPT !.focusedField = (@ - 1 + 4) % 4])
    ELSE IF key = "enter"
    THEN IF m1.focusedField = fieldRememberMe
         THEN Handled([m1 EXCEPT !.rememberMe = ~@])
         ELSE IF m1.focusedField = fieldLoginButton
         THEN IF m1.Credentials.StudentID = <<>> \/ m1.Credentials.Password = <<>>
              THEN Handled(m1)
              ELSE Starts(Loading(m1, ReasonLogin), "Login", FALSE)
         ELSE Handled(m1)
    ELSE IF key = " "
    THEN IF m1.focusedField = fieldRememberMe
         THEN Handled([m1 EXCEPT !.rememberMe = ~@]) ELSE Handled(m1)
    ELSE IF key = "backspace"
    THEN IF m1.focusedField = fieldStudentID /\ Len(m1.Credentials.StudentID) > 0
         THEN Handled([m1 EXCEPT !.Credentials.StudentID = DropLast(@)])
         ELSE IF m1.focusedField = fieldPassword /\ Len(m1.Credentials.Password) > 0
         THEN Handled([m1 EXCEPT !.Credentials.Password = DropLast(@)])
         ELSE Handled(m1)
    ELSE IF m1.focusedField = fieldStudentID
    THEN Handled([m1 EXCEPT !.Credentials.StudentID = Append(@, key)])
    ELSE IF m1.focusedField = fieldPassword
    THEN Handled([m1 EXCEPT !.Credentials.Password = Append(@, key)])
    ELSE Handled(m1)

handleResultKeys(m1, key) ==
    IF key \in {"ctrl+c", "q"} THEN Quits(m1)
    ELSE IF key \in {"enter", "c"}
    THEN IF m1.loginResult = ErrNone
         THEN Starts(Loading(m1, ReasonLoading), "GetCourses", FALSE)
         ELSE Handled(m1)
    ELSE IF key = "r" THEN LogsOut(m1)
    ELSE Handled(m1)

handleCoursesKeys(m1, key) ==
    IF key \in {"ctrl+c", "q"} THEN Quits(m1)
    ELSE IF key \in {"up", "k"}
    THEN Handled(IF m1.selectedCourse > 0 THEN [m1 EXCEPT !.selectedCourse = @ - 1] ELSE m1)
    ELSE IF key \in {"down", "j"}
    THEN Handled(IF m1.selectedCourse < m1.courses - 1
                 THEN [m1 EXCEPT !.selectedCourse = @ + 1] ELSE m1)
    ELSE IF key = "enter"
    THEN Handled(IF m1.courses > 0 THEN [m1 EXCEPT !.currentView = "CourseDetailView"] ELSE m1)
    ELSE IF key = "r" THEN Starts(Loading(m1, ReasonRefreshing), "GetCourses", FALSE)
    ELSE IF key = "l" THEN LogsOut(m1)
    ELSE IF key = "t" THEN Starts(Loading(m1, ReasonTranscript), "GetTranscript", FALSE)
    ELSE Handled(m1)

CourseSelected(m1) == m1.courses > 0 /\ m1.selectedCourse < m1.courses

handleCourseDetailKeys(m1, key) ==
    IF key \in {"ctrl+c", "q"} THEN Quits(m1)
    ELSE IF key \in {"esc", "enter"} THEN Handled([m1 EXCEPT !.currentView = "CoursesView"])
    ELSE IF key = "a" /\ CourseSelected(m1)
    THEN Starts(Loading(m1, ReasonAttendance(CourseCodeText(m1.selectedCourse))),
                "GetCourseAttendance", FALSE)
    ELSE IF key = "s" /\ CourseSelected(m1)
    THEN Starts(Loading(m1, ReasonAssessments(CourseCodeText(m1.selectedCourse))),
                "GetCourseAssessments", FALSE)
    ELSE Handled(m1)

handleTranscriptKeys(m1, key) ==
    IF key \in {"ctrl+c", "q"} THEN Quits(m1)
    ELSE IF key = "esc" THEN Handled([m1 EXCEPT !.currentView = "CoursesView"])
    ELSE IF key = "r" THEN Starts(Loading(m1, ReasonTranscript), "GetTranscript", TRUE)
    ELSE Handled(m1)

handleAttendanceKeys(m1, key) ==
    IF key \in {"ctrl+c", "q"} THEN Quits(m1)
    ELSE IF key = "esc" THEN Handled([m1 EXCEPT !.currentView = "CourseDetailView"])
    ELSE IF key = "r" /\ CourseSelected(m1)
    THEN Starts(Loading(m1, ReasonAttendance(CourseCodeText(m1.selectedCourse))),
                "GetCourseAttendance", TRUE)
    ELSE Handled(m1)

handleAssessmentKeys(m1, key) ==
    IF key \in {"ctrl+c", "q"} THEN Quits(m1)
    ELSE IF key = "esc" THEN Handled([m1 EXCEPT !.currentView = "CourseDetailView"])
    ELSE IF key = "r" /\ CourseSelected(m1)
    THEN Starts(Loading(m1, ReasonAssessments(CourseCodeText(m1.selectedCourse))),
                "GetCourseAssessments", FALSE)
    ELSE Handled(m1)

\* View: the loggedIn flags of the Sessions after rendering, and whether the
\* rendering dereferences a nil Session (renderTranscript does when the table
\* has rows)
renderCoursesPanics(m1) == m1.session = 0

View(m1, flags) ==
    IF m1.currentView = "ResultView"
    THEN IF ~m1.courseError /\ m1.loginResult = ErrNone
         THEN IF m1.session = 0 THEN [loggedIn |-> flags, panic |-> TRUE]
              ELSE [loggedIn |-> [flags EXCEPT ![m1.session] = TRUE], panic |-> FALSE]
         ELSE [loggedIn |-> flags, panic |-> FALSE]
    ELSE IF m1.currentView = "CoursesView"
    THEN [loggedIn |-> flags, panic |-> renderCoursesPanics(m1)]
    ELSE IF m1.currentView \in {"CourseDetailView", "AttendanceView", "AssessmentView"}
    THEN [loggedIn |-> flags, panic |-> ~CourseSelected(m1) /\ renderCoursesPanics(m1)]
    ELSE IF m1.currentView = "TranscriptView"
    THEN [loggedIn |-> flags, panic |-> m1.session = 0]
    ELSE [loggedIn |-> flags, panic |-> FALSE]

\* Update on the result messages of the commands
UpdateLoginResult(m1, code, sid) ==
    [m1 EXCEPT !.loginResult = code,
               !.session = IF code = ErrNone THEN sid ELSE @,
               !.currentView = "ResultView"]

UpdateCoursesLoaded(m1, failed, n) ==
    IF failed THEN [m1 EXCEPT !.courseError = TRUE, !.currentView = "ResultView"]
    ELSE [m1 EXCEPT !.courses = n, !.courseError = FALSE, !.currentView = "CoursesView"]

UpdateCourseAction(m1, action, failed) ==
    IF failed
    THEN [m1 EXCEPT !.courseError = TRUE,
                    !.currentView = IF action = "transcript" THEN "CoursesView"
                                    ELSE "CourseDetailView"]
    ELSE [m1 EXCEPT !.courseError = FALSE,
                    !.currentView = IF action = "transcript" THEN "TranscriptView"
                                    ELSE IF action = "attendance" THEN "AttendanceView"
                                    ELSE "AssessmentView"]

(***************************************************************************)
(* The Session driven by one caller, one operation at a time               *)
(***************************************************************************)
VARIABLES
    session,        \* the Session
    credsFile,      \* creds.gob: no element, or the Credentials saved
    cacheFile,      \* transcript.json: no element, or the transcript saved
    pc,             \* "idle", or the retry loop the caller is in
    op,             \* the call being served, or the last one served
    attempts,       \* passes of the retry loop begun by this call
    cause,          \* why the last pass ended
    lastErr,        \* lastErr of fetchTranscript
    trace,          \* requests sent and sleeps taken by the last pass or call
    ret,            \* what the last call returned, "none" while it runs
    tokens,         \* tokens the accepted pass extracted, 0 before one is accepted
    allSmall,       \* every pass of this call ended on an undersized body
    firstAccepted,  \* the pass of this call that was first accepted, 0 if none
    m,              \* the model of the terminal program
    loggedIn,       \* the loggedIn field of each Session a login command created
    inFlight,       \* the bag of commands started whose result message is not yet handled
    status,         \* "running", "quit" after tea.Quit, "panic" after a nil dereference
    nextSession,    \* the number of the Session the next login command creates
    fn,             \* the parser or conversion applied to arg, "none" before it is called
    arg,            \* the value a parser or a conversion is applied to
    out             \* its locals while it runs, what it returned afterwards

apiVars ==
    <<session, credsFile, cacheFile, pc, op, attempts, cause, lastErr, trace, ret, tokens,
      allSmall, firstAccepted>>

\* the variables of the Session's caller other than the two files
apiRest ==
    <<session, pc, op, attempts, cause, lastErr, trace, ret, tokens, allSmall, firstAccepted>>

tuiVars == <<m, loggedIn, inFlight, status, nextSession>>

parseVars == <<fn, arg, out>>

vars == <<apiVars, tuiVars, parseVars>>

\* no parser or conversion is applied on its own
ParseIdle == fn = "none" /\ arg = <<>> /\ out = <<>>

\* NewModel and Init of ui.go, on what LoadCreds returns
TuiInit(credsLoaded) ==
    /\ \E creds \in credsLoaded :
        /\ m = NewModel(creds, creds.StudentID = <<>>)
        /\ inFlight = IF m.currentView = "LoadingView"
                      THEN SetToBag({[name |-> "Login", session |-> 1, refresh |-> FALSE]})
                      ELSE EmptyBag
        /\ nextSession = IF m.currentView = "LoadingView" THEN 2 ELSE 1
    /\ loggedIn = [sid \in 1..MaxSessions |-> FALSE]
    /\ status = "running"

NoCreds == [StudentID |-> <<>>, Password |-> <<>>]

\* the arguments of a call: those an operation does not take keep these values
NoArgs == [refresh |-> FALSE, courseId |-> "", studentId |-> <<>>]

\* a Session after a Login that passed, and after GetCourses on a page of one course
SessionAfterLogin ==
    SessionLogin(NewSession, <<>>, [StudentID |-> <<"f","1">>, Password |-> GoodPassword],
                 FALSE, GoodLoginEnv).s

SessionWithCourse ==
    fetchUserCourses(SessionAfterLogin, [fail |-> "none", page |-> CoursePage(1)]).s

\* the cache files an earlier accepted GetTranscript leaves
CachedFiles ==
    saveTranscriptCache(TranscriptPass(SessionAfterLogin, TranscriptBaseEnv), NoFile, TRUE)

ApiInit(sessions, files) ==
    /\ session \in sessions
    /\ credsFile = <<>>
    /\ cacheFile \in files
    /\ pc = "idle"
    /\ op = [name |-> "none", args |-> NoArgs]
    /\ attempts = 0
    /\ cause = "none"
    /\ lastErr = "nil"
    /\ trace = <<>>
    /\ ret = "none"
    /\ tokens = 0
    /\ allSmall = TRUE
    /\ firstAccepted = 0

\* a call that returns without entering a retry loop
Returns(name, args, s, result, tr) ==
    /\ pc = "idle"
    /\ pc' = "idle"
    /\ op' = [name |-> name, args |-> args]
    /\ session' = s
    /\ ret' = result
    /\ trace' = tr
    /\ tokens' = 0
    /\ attempts' = 0
    /\ cause' = "none"
    /\ lastErr' = "nil"
    /\ allSmall' = TRUE
    /\ firstAccepted' = 0
    /\ UNCHANGED <<tuiVars, parseVars>>

\* a call that enters its retry loop
EntersLoop(name, args, s) ==
    /\ pc = "idle"
    /\ pc' = name
    /\ op' = [name |-> name, args |-> args]
    /\ session' = s
    /\ ret' = "none"
    /\ trace' = <<>>
    /\ tokens' = 0
    /\ attempts' = 0
    /\ cause' = "none"
    /\ lastErr' = "nil"
    /\ allSmall' = TRUE
    /\ firstAccepted' = 0
    /\ UNCHANGED <<tuiVars, parseVars>>

CallLogin(credentialSets, envs) ==
    \E credentials \in credentialSets, rememberMe \in BOOLEAN, env \in envs :
        LET r == SessionLogin(session, credsFile, credentials, rememberMe, env)
        IN  /\ Returns("Login", [NoArgs EXCEPT !.studentId = credentials.StudentID],
                       r.s, r.code, r.trace)
            /\ credsFile' = r.creds
            /\ UNCHANGED cacheFile

CallLogout ==
    /\ Returns("Logout", NoArgs, Logout(session), "nil", <<>>)
    /\ UNCHANGED <<credsFile, cacheFile>>

CallGetCourses(envs) ==
    \E env \in envs :
        LET r == fetchUserCourses(session, env)
        IN  /\ Returns("GetCourses", NoArgs, r.s, r.err, r.trace)
            /\ UNCHANGED <<credsFile, cacheFile>>

CallGetCourseAssessments ==
    \E courseId \in CourseIdArgs, env \in AssessmentEnvs :
        LET r == fetchCourseAssessments(session, courseId, env)
        IN  /\ Returns("GetCourseAssessments", [NoArgs EXCEPT !.courseId = courseId],
                       r.s, r.err, r.trace)
            /\ UNCHANGED <<credsFile, cacheFile>>

CallGetCourseAttendance ==
    \E refresh \in BOOLEAN, courseId \in CourseIdArgs :
        LET next == AttendancePrecheck(session, refresh, courseId)
            args == [NoArgs EXCEPT !.refresh = refresh, !.courseId = courseId]
        IN  /\ IF next = "loop"
               THEN EntersLoop("GetCourseAttendance", args, session)
               ELSE Returns("GetCourseAttendance", args, session, next, <<>>)
            /\ UNCHANGED <<credsFile, cacheFile>>

\* one pass of the loop of fetchCourseAttendance
AttendancePass(envs) ==
    /\ pc = "GetCourseAttendance"
    /\ LoopContinues(attempts)
    /\ \E env \in envs :
        LET why == AttendanceCause(env)
            r   == AttendanceAccepted(session, op.args.courseId, env.data)
        IN  /\ attempts' = attempts + 1
            /\ cause' = why
            /\ trace' = AttendanceTrace(why)
            /\ allSmall' = (allSmall /\ why = "small")
            /\ IF why = "accepted"
               THEN /\ session' = r.s
                    /\ ret' = r.err
                    /\ pc' = "idle"
                    /\ firstAccepted' = attempts + 1
                    /\ tokens' = Len(env.data)
               ELSE UNCHANGED <<session, ret, pc, firstAccepted, tokens>>
    /\ UNCHANGED <<credsFile, cacheFile, op, lastErr, tuiVars, parseVars>>

\* api.go:558: the loop has run out
AttendanceExhausted ==
    /\ pc = "GetCourseAttendance"
    /\ ~LoopContinues(attempts)
    /\ pc' = "idle"
    /\ ret' = "errExhausted"
    /\ UNCHANGED <<session, credsFile, cacheFile, op, attempts, cause, lastErr, trace, tokens,
                   allSmall, firstAccepted, tuiVars, parseVars>>

CallGetTranscript ==
    \E refresh \in BOOLEAN :
        LET r    == TranscriptPrecheck(session, refresh, cacheFile)
            args == [NoArgs EXCEPT !.refresh = refresh]
        IN  /\ IF r.next = "loop"
               THEN EntersLoop("GetTranscript", args, r.s)
               ELSE Returns("GetTranscript", args, r.s, r.next, <<>>)
            /\ UNCHANGED <<credsFile, cacheFile>>

\* one pass of the loop of fetchTranscript
TranscriptPassStep(envs) ==
    /\ pc = "GetTranscript"
    /\ LoopContinues(attempts)
    /\ \E env \in envs :
        LET why == TranscriptCause(env)
            s2  == TranscriptPass(session, env)
        IN  /\ attempts' = attempts + 1
            /\ cause' = why
            /\ trace' = TranscriptTrace(why)
            /\ allSmall' = (allSmall /\ why = "small")
            /\ session' = s2
            /\ cacheFile' \in IF why = "accepted"
                              THEN saveTranscriptCache(s2, cacheFile, env.saveOK)
                              ELSE {cacheFile}
            /\ IF TranscriptReturns(why, env.saveOK)
               THEN /\ ret' = "nil"
                    /\ pc' = "idle"
                    /\ firstAccepted' = attempts + 1
                    /\ tokens' = Len(env.data)
                    /\ UNCHANGED lastErr
               ELSE /\ lastErr' = LastErrAfter(lastErr, why)
                    /\ UNCHANGED <<ret, pc, firstAccepted, tokens>>
    /\ UNCHANGED <<credsFile, op, tuiVars, parseVars>>

\* api.go:667-670: the loop has run out
TranscriptExhausted ==
    /\ pc = "GetTranscript"
    /\ ~LoopContinues(attempts)
    /\ pc' = "idle"
    /\ ret' = "errExhausted"
    /\ UNCHANGED <<session, credsFile, cacheFile, op, attempts, cause, lastErr, trace, tokens,
                   allSmall, firstAccepted, tuiVars, parseVars>>

(***************************************************************************)
(* Spec: every operation of the Session, on the token streams              *)
(***************************************************************************)
Init ==
    /\ ApiInit({NewSession, SessionAfterLogin}, {NoFile} \cup CachedFiles)
    /\ TuiInit({NoCreds})
    /\ ParseIdle

Next ==
    \/ CallLogout
    \/ CallGetCourses(CoursesEnvs)
    \/ CallGetCourseAssessments
    \/ CallGetCourseAttendance
    \/ AttendancePass(AttendanceDataEnvs)
    \/ AttendanceExhausted
    \/ CallGetTranscript
    \/ TranscriptPassStep(TranscriptDataEnvs)
    \/ TranscriptExhausted

Spec == Init /\ [][Next]_vars

(***************************************************************************)
(* SpecRetry: the two retry loops, with every way a pass can end           *)
(***************************************************************************)
RetryInit ==
    /\ ApiInit({SessionWithCourse}, {NoFile} \cup CachedFiles)
    /\ TuiInit({NoCreds})
    /\ ParseIdle

RetryNext ==
    \/ CallGetCourseAttendance
    \/ AttendancePass(AttendanceEnvs)
    \/ AttendanceExhausted
    \/ CallGetTranscript
    \/ TranscriptPassStep(TranscriptEnvs)
    \/ TranscriptExhausted

SpecRetry == RetryInit /\ [][RetryNext]_vars

(***************************************************************************)
(* SpecLogin: Login and Logout, with every way a Login can end             *)
(***************************************************************************)
LoginInit ==
    /\ ApiInit({NewSession}, {NoFile} \cup CachedFiles)
    /\ TuiInit({NoCreds})
    /\ ParseIdle

LoginNext ==
    \/ CallLogin(CredentialSets, LoginEnvs)
    \/ CallLogout
    \/ CallGetTranscript
    \/ TranscriptPassStep({TranscriptBaseEnv})

SpecLogin == LoginInit /\ [][LoginNext]_vars

(***************************************************************************)
(* SpecLogout: Logout among the Logins and the fetches of the courses      *)
(***************************************************************************)
\* Logins that fail before, at and after the cookie check, and one that passes
LogoutLoginEnvs ==
    {GoodLoginEnv, [GoodLoginEnv EXCEPT !.postOK = FALSE],
     [GoodLoginEnv EXCEPT !.jar = MinLoginCookies - 1],
     [GoodLoginEnv EXCEPT !.dash = "parse"]}

LogoutCredentialSets ==
    {[StudentID |-> <<"f","1">>, Password |-> GoodPassword],
     [StudentID |-> <<>>, Password |-> GoodPassword]}

LogoutCoursesEnvs ==
    {[fail |-> "transport", page |-> <<>>], [fail |-> "none", page |-> CoursePage(1)]}

LogoutInit ==
    /\ ApiInit({NewSession, SessionWithCourse}, {NoFile})
    /\ TuiInit({NoCreds})
    /\ ParseIdle

LogoutNext ==
    \/ CallLogin(LogoutCredentialSets, LogoutLoginEnvs)
    \/ CallLogout
    \/ CallGetCourses(LogoutCoursesEnvs)
    \/ CallGetCourseAssessments
    \/ CallGetCourseAttendance
    \/ AttendancePass(AttendanceDataEnvs)
    \/ AttendanceExhausted

SpecLogout == LogoutInit /\ [][LogoutNext]_vars

(***************************************************************************)
(* SpecCourses: the fetches of the courses on course lists in which an ID  *)
(* can occur twice                                                         *)
(***************************************************************************)
\* the IDs of the rows of a courses page: none, one, two different ones, the
\* same one twice, and one between two rows of another
CourseIdLists ==
    { <<>>, <<"c1">>, <<"c1", "c2">>, <<"c1", "c1">>, <<"c2", "c1", "c2">> }

\* the page with these IDs; the codes tell the rows of one ID apart
CoursePageOf(ids) == [i \in 1..Len(ids) |-> [ID |-> ids[i], Code |-> CourseNames[i]]]

\* a Session without cookies, and the Sessions GetCourses leaves on these pages
CoursesSessions ==
    {NewSession}
    \cup {fetchUserCourses(SessionAfterLogin, [fail |-> "none", page |-> CoursePageOf(ids)]).s :
            ids \in CourseIdLists}

\* GetCourses fails, or it is served the page of two courses with one ID
CoursesAgainEnvs ==
    {[fail |-> f, page |-> <<>>] : f \in {"newRequest", "transport", "parse"}}
    \cup {[fail |-> "none", page |-> CoursePageOf(<<"c1", "c1">>)]}

CoursesInit ==
    /\ ApiInit(CoursesSessions, {NoFile})
    /\ TuiInit({NoCreds})
    /\ ParseIdle

CoursesNext ==
    \/ CallGetCourses(CoursesAgainEnvs)
    \/ CallGetCourseAssessments
    \/ CallGetCourseAttendance
    \/ AttendancePass(AttendanceDataEnvs)
    \/ AttendanceExhausted

SpecCourses == CoursesInit /\ [][CoursesNext]_vars

(***************************************************************************)
(* SpecParse: the parsers and the cache conversions, each applied to one   *)
(* input drawn when the behaviour starts                                   *)
(***************************************************************************)
\* course rows of a generated transcript stream that vary
MaxRows == 1

\* semesters of a generated semester map
MaxSemesters == 4

\* headings of a semester: one that parseAndSortSemesters can order, two that
\* it cannot
TrHeadings == { <<"F","a","l","l"," ","2","0","2","1">>, <<"F","a","l","l"," ","S","e","m","e","s","t","e","r"," ","2","0","2","1">>, <<"S","u","m","m","e","r","-","2","0","2","1">> }

TrGrades == zeroGrades \cup { <<"A">> }

\* what follows the grade in the stream: nothing, or a token that parses as a float
TrFollows == { <<>>, << <<"3",".","5","0">> >>, << <<"2">> >> }

TrRow(grade, follow) == << <<"C","S","1">>, <<"I","n","t","r","o">>, <<"3">>, grade >> \o follow

\* a second semester, which parseAndSortSemesters can order
TrSecondSemester ==
    << <<"S","p","r","i","n","g"," ","2","0","2","2">>, <<"M","A","1">>, <<"C","a","l","c">>, <<"3">>, <<"A">>, <<"4",".","0","0">>,
       <<"C","r","."," ","H","r","s","."," ","E","a","r","n","e","d",":"," ","3"," ","C","G","P","A",":"," ","3",".","4","5","6">>,
       <<"S","G","P","A",":"," ","3",".","4","5","6">> >>

RECURSIVE TrRows(_)
TrRows(rows) ==
    IF rows = <<>> THEN <<>> ELSE TrRow(Head(rows)[1], Head(rows)[2]) \o TrRows(Tail(rows))

\* tokens that fit several rules of the loop, and credit-hour lines with and
\* without the CGPA part
TrLabelTokens ==
    { <<"G","r","a","d","e">>,
      <<"F","a","l","l"," ","C","r","."," ","H","r","s","."," ","E","a","r","n","e","d",":"," ","3"," ","C","G","P","A",":"," ","3",".","0">>,
      <<"C","r","."," ","H","r","s","."," ","E","a","r","n","e","d",":"," ","3"," ","C","G","P","A",":"," ","3",".","0"," ","S","G","P","A",":"," ","3",".","0">>,
      <<"S","G","P","A",":"," ","3",".","0">>,
      <<"S","u","m","m","e","r"," ","S","G","P","A",":"," ","3",".","0">>,
      <<"C","r","."," ","H","r","s","."," ","E","a","r","n","e","d",":"," ","3">>,
      <<"C","r","."," ","H","r","s","."," ","E","a","r","n","e","d",":"," ","3"," ","C","G","P","A",":"," ","3",".","5">>,
      <<"C","r","."," ","H","r","s","."," ","E","a","r","n","e","d",":"," ","x"," ","C","G","P","A",":"," ","3",".","5">> }

\* grade points of the course before such a token: positive, negative, zero
TrSignedPoints == { <<"4",".","0","0">>, <<"-","1",".","0","0">>, <<"0",".","0","0">> }

\* a semester with one course, then one such token where a course row could start
TrLabelStreams ==
    {<< <<"F","a","l","l"," ","2","0","2","1">> >> \o TrRow(<<"A">>, <<gp>>) \o <<t>>
        \o << <<"I","n","t","r","o">>, <<"3">>, <<"A">>, <<"4",".","0","0">> >> :
            t \in TrLabelTokens, gp \in TrSignedPoints}

\* each stream starts with a heading or with none, has up to MaxRows course
\* rows and ends with the second semester or with the last of the rows
TranscriptStreams ==
    {h \o TrRows(rows) \o tail :
        h \in {<<x>> : x \in TrHeadings} \cup {<<>>}, tail \in {TrSecondSemester, <<>>},
        rows \in UNION {[1..n -> TrGrades \X TrFollows] : n \in 0..MaxRows}}

OneTranscriptCourse ==
    << [Code |-> <<"C","S","1">>, Title |-> <<"I","n","t","r","o">>, CreditHours |-> 3, Grade |-> <<"A">>,
        GradePoint |-> 4000] >>

\* semesters by name: four that can be ordered, one of them in lower case and
\* one twice with two CGPAs, and three that cannot
SortSemesters ==
    {[NewSemester(name) EXCEPT !.CGPA = cgpa] :
        name \in { <<"F","a","l","l"," ","2","0","2","1">>, <<"S","p","r","i","n","g"," ","2","0","2","1">>, <<"S","u","m","m","e","r"," ","2","0","2","1">>, <<"F","a","l","l"," ","2","0","2","0">>, <<"f","a","l","l"," ","2","0","1","9">>, <<"W","i","n","t","e","r"," ","2","0","2","1">>,
                   <<"F","a","l","l">>, <<"F","a","l","l"," ","S","e","m","e","s","t","e","r"," ","2","0","2","1">> },
        cgpa \in {0}}
    \cup {[NewSemester(<<"F","a","l","l"," ","2","0","2","1">>) EXCEPT !.CGPA = 3000]}

SemesterMaps ==
    {[sem \in keys |-> OneTranscriptCourse] :
        keys \in {k \in SUBSET SortSemesters : Cardinality(k) \in 1..MaxSemesters}}

\* semesters whose CGPA and SGPA have two decimals, and three
CacheSemesters ==
    {[Name |-> <<"F","a","l","l"," ","2","0","2","1">>, CreditHoursEarned |-> 3, CGPA |-> g, SGPA |-> g] :
        g \in {3450, 3456, 3457}}
    \cup {[Name |-> <<"S","p","r","i","n","g"," ","2","0","2","2">>, CreditHoursEarned |-> 15, CGPA |-> 3000, SGPA |-> 4000]}

\* Transcripts: those over CacheSemesters, and the one GetTranscript stores
\* from TrStreamOne
Transcripts ==
    {[EmptyTranscript EXCEPT !.Semester = [sem \in keys |-> OneTranscriptCourse],
                             !.TotalCGPA = <<"3",".","4","5">>] :
        keys \in {k \in SUBSET CacheSemesters : Cardinality(k) \in 1..MaxSemesters}}
    \cup {EmptyTranscript,
          TranscriptPass(SessionAfterLogin, TranscriptBaseEnv).Student.Transcript}

\* the text before the suffix of an attendance trailer: integers, and texts
\* strconv.Atoi refuses
TrailerPrefixes ==
    { <<"0">>, <<"5">>, <<"5","0">>, <<"1","0","0">>, <<"0","7">>, <<" ","7","5">>,
      <<>>, <<"5","0",".","5">>, <<"n","a">> , <<"5","0"," ","%">> }

TrailerSuffixes ==
    { SuffixAttandence, SuffixAttendance, <<>>, <<" ","%"," ","a","t","t","e","n","d","a","n","c","e">>, <<"%">> }

\* attendance streams of six and of ten tokens that end with each trailer
AttendanceTrailerStreams ==
    {SubSeq(s, 1, Len(s) - 1) \o <<p \o x>> :
        s \in {AttStreamSix, AttStreamTen}, p \in TrailerPrefixes, x \in TrailerSuffixes}

\* complete groups of a generated attendance stream
MaxGroups == 2

\* lecture tokens: two that hold a number and one that does not
LectureTokens == { <<"L","e","c","t","u","r","e"," ","N","o","."," ","1">>, <<"L","e","c","t","u","r","e"," ","N","o","."," ","2">>, <<"L","e","c","t","u","r","e"," ","N","o","."," ","x">> }

AttendanceGroupTokens(lecture) ==
    << lecture, <<"0","1","-","0","2","-","2","0","2","4">>,
       IF lecture = <<"L","e","c","t","u","r","e"," ","N","o","."," ","2">> THEN <<"A","b","s","e","n","t">> ELSE <<"p","r","e","s","e","n","t">>, <<"D","r"," ","A">> >>

RECURSIVE AttendanceGroups(_)
AttendanceGroups(lectures) ==
    IF lectures = <<>> THEN <<>>
    ELSE AttendanceGroupTokens(Head(lectures)) \o AttendanceGroups(Tail(lectures))

\* the four header labels, up to MaxGroups groups, the first tokens of one
\* group more (none to three of them) and the two trailer tokens
AttendanceGroupStreams ==
    {SubSeq(AttStreamSix, 1, 4) \o AttendanceGroups(lectures)
        \o SubSeq(AttendanceGroupTokens(<<"L","e","c","t","u","r","e"," ","N","o","."," ","1">>), 1, extra) \o SubSeq(AttStreamSix, 5, 6) :
        lectures \in UNION {[1..k -> LectureTokens] : k \in 0..MaxGroups},
        extra \in 0..3}

\* semesters of a transcript to show: two of them are Fall 2021
TableSemesters ==
    { NewSemester(<<"F","a","l","l"," ","2","0","2","1">>),
      [NewSemester(<<"F","a","l","l"," ","2","0","2","1">>) EXCEPT !.CGPA = 3000],
      NewSemester(<<"S","p","r","i","n","g"," ","2","0","2","1">>) }

\* the course of a semester: the second Fall 2021 has a course of its own
TableCourses(sem) ==
    IF sem.CGPA = 3000
    THEN << [Code |-> <<"M","A","1">>, Title |-> <<"C","a","l","c">>, CreditHours |-> 4,
             Grade |-> <<"B">>, GradePoint |-> 3000] >>
    ELSE OneTranscriptCourse

\* calls of GetTranscript: on a Session without cookies, one that has logged
\* in and one that holds a transcript, with and without the cache file, and
\* with every way the first pass and the passes after it can end
FetchTranscriptCalls ==
    {[s |-> s, refresh |-> refresh, file |-> file, envs |-> <<first, rest>>] :
        s \in {NewSession, SessionAfterLogin, TranscriptPass(SessionAfterLogin, TranscriptBaseEnv)},
        refresh \in BOOLEAN, file \in {NoFile} \cup CachedFiles,
        first \in TranscriptEnvs, rest \in TranscriptEnvs}

\* Transcript.Semester of the transcripts handed to setTranscriptTable
TableSemesterMaps ==
    {[sem \in keys |-> TableCourses(sem)] : keys \in (SUBSET TableSemesters) \ {{}}}

\* the input of one behaviour, with the parser or conversion it is for
ParseInput(for, inputs) == \E d \in inputs : arg = [for |-> for, data |-> d]

ParseInit ==
    /\ ApiInit({NewSession}, {NoFile})
    /\ TuiInit({NoCreds})
    /\ fn = "none"
    /\ \/ ParseInput("parseTranscript", TranscriptStreams \cup TrLabelStreams)
       \/ ParseInput("parseAndSortSemesters", SemesterMaps)
       \/ ParseInput("setTranscriptTable", TableSemesterMaps)
       \/ ParseInput("fetchTranscript", FetchTranscriptCalls)
       \/ ParseInput("ToSerializable", Transcripts)
       \/ ParseInput("StoreAttendance", AttendanceTrailerStreams \cup AttendanceGroupStreams)
    /\ out = <<>>

\* fn and out change, the input stays
Applies(name, result) ==
    /\ fn' = name
    /\ out' = result
    /\ UNCHANGED <<arg, credsFile, cacheFile, pc, op, attempts, cause, lastErr, trace, ret,
                   tokens, allSmall, firstAccepted, tuiVars>>

\* parseTranscript is entered: its locals before the loop
CallParseTranscript ==
    /\ fn = "none" /\ arg.for = "parseTranscript"
    /\ Applies("parseTranscript", ParserInit)
    /\ UNCHANGED session

\* one iteration of its loop
ParseTranscriptIteration ==
    /\ fn = "parseTranscript"
    /\ out.i < Len(arg.data)
    /\ Applies("parseTranscript", TranscriptStep(out, arg.data))
    /\ UNCHANGED session

\* api.go:820-831: the last flush, the ordering and the map stored on the Session
ParseTranscriptReturns ==
    /\ fn = "parseTranscript"
    /\ out.i >= Len(arg.data)
    /\ Applies("parseTranscript returned", Flush(out))
    /\ session' = [session EXCEPT !.Student.Transcript.Semester = RekeyedSemesters(Flush(out))]

CallParseAndSortSemesters ==
    /\ fn = "none" /\ arg.for = "parseAndSortSemesters"
    /\ \E keys \in parseAndSortSemesters(arg.data) :
        Applies("parseAndSortSemesters returned", keys)
    /\ UNCHANGED session

CallToSerializable ==
    /\ fn = "none" /\ arg.for = "ToSerializable"
    /\ \E st \in ToSerializable(arg.data) : Applies("ToSerializable returned", st)
    /\ UNCHANGED session

CallToTranscript ==
    /\ fn = "ToSerializable returned"
    /\ Applies("ToTranscript returned", ToTranscript(out))
    /\ UNCHANGED session

\* the rows initTranscriptTable gives the table of one semester (ui.go:1284-1293)
TableRows(courses) ==
    [k \in 1..Len(courses) |->
        << courses[k].Code, courses[k].Title, Itoa(courses[k].CreditHours),
           courses[k].Grade, FormatFloat2(courses[k].GradePoint) >>]

\* min(max(len(rows)+1, 5), 15)
TableHeight(rows) ==
    LET most == IF Len(rows) + 1 > 5 THEN Len(rows) + 1 ELSE 5
    IN  IF most < 15 THEN most ELSE 15

\* initTranscriptTable on the sequence its call of parseAndSortSemesters
\* returned: one table per key, in the order of the keys
initTranscriptTable(semester, semesterKeys) ==
    [i \in 1..Len(semesterKeys) |->
        [rows   |-> TableRows(semester[semesterKeys[i].semester]),
         height |-> TableHeight(TableRows(semester[semesterKeys[i].semester]))]]

\* setTranscriptTable(t): the fields of the model it assigns. It calls
\* parseAndSortSemesters itself and initTranscriptTable calls it again, and
\* each call returns one of the sequences the function can return.
setTranscriptTable(semester) ==
    {[transcriptSemesters |-> first,
      table               |-> initTranscriptTable(semester, second),
      currentSemester     |-> 0] :
        first \in parseAndSortSemesters(semester),
        second \in parseAndSortSemesters(semester)}

\* GetTranscript from its call to its return
CallFetchTranscript ==
    /\ fn = "none" /\ arg.for = "fetchTranscript"
    /\ Applies("fetchTranscript returned",
               fetchTranscript(arg.data.s, arg.data.refresh, arg.data.file, arg.data.envs))
    /\ UNCHANGED session

\* ui.go:1037-1041 on the semesters of a transcript
CallSetTranscriptTable ==
    /\ fn = "none" /\ arg.for = "setTranscriptTable"
    /\ \E fields \in setTranscriptTable(arg.data) :
        Applies("setTranscriptTable returned", fields)
    /\ UNCHANGED session

\* api.go:504-554 on a course that holds nothing yet
CallStoreAttendance ==
    /\ fn = "none" /\ arg.for = "StoreAttendance"
    /\ Applies("StoreAttendance returned",
               StoreAttendance(NewCourse(CourseNames[1], CourseNames[1]), arg.data))
    /\ UNCHANGED session

ParseNext ==
    \/ CallParseTranscript
    \/ ParseTranscriptIteration
    \/ ParseTranscriptReturns
    \/ CallParseAndSortSemesters
    \/ CallToSerializable
    \/ CallToTranscript
    \/ CallStoreAttendance
    \/ CallSetTranscriptTable
    \/ CallFetchTranscript

SpecParse == ParseInit /\ [][ParseNext]_vars

(***************************************************************************)
(* SpecTui: the terminal program, its commands and their result messages   *)
(***************************************************************************)
\* the rest of a pass of the event loop: the command returned is started and
\* the View of the new model is rendered
Finish(m2, quit, flying, cmd) ==
    IF quit
    THEN /\ status' = "quit"
         /\ UNCHANGED <<m, loggedIn, inFlight, nextSession>>
    ELSE LET v       == View(m2, loggedIn)
             isLogin == cmd # <<>> /\ cmd[1].name = "Login"
             sid     == IF isLogin THEN nextSession ELSE m2.session
         IN  /\ m' = m2
             /\ loggedIn' = v.loggedIn
             /\ status' = IF v.panic \/ (cmd # <<>> /\ sid = 0) THEN "panic" ELSE "running"
             /\ inFlight' = IF cmd = <<>> THEN flying
                            ELSE flying (+) SetToBag({[name |-> cmd[1].name, session |-> sid,
                                                       refresh |-> cmd[1].refresh]})
             /\ nextSession' = IF isLogin THEN nextSession + 1 ELSE nextSession

\* a key message: Update runs the handler of the current view
Press(r) ==
    /\ status = "running"
    /\ (r.cmd # <<>>) => (BagCardinality(inFlight) < MaxInFlight)
    /\ (r.cmd # <<>> /\ r.cmd[1].name = "Login") => (nextSession <= MaxSessions)
    /\ Finish(r.m, r.quit, inFlight, r.cmd)
    /\ credsFile' = IF r.deleted = "both" THEN <<>> ELSE credsFile
    /\ cacheFile' = IF r.deleted = "none" THEN cacheFile ELSE <<>>
    /\ UNCHANGED <<apiRest, parseVars>>

TypedKeys == {"f"}

FieldFull(m1) ==
    \/ m1.focusedField = fieldStudentID /\ Len(m1.Credentials.StudentID) >= MaxTyped
    \/ m1.focusedField = fieldPassword /\ Len(m1.Credentials.Password) >= MaxTyped

LoginKeypress ==
    /\ m.currentView = "LoginView"
    /\ \E key \in {"q", "esc", "tab", "shift+tab", "enter", " ", "backspace"} \cup TypedKeys :
        /\ key \in TypedKeys => ~FieldFull(m)
        /\ Press(handleLoginKeys(m, key))

LoadingKeypress ==
    /\ m.currentView = "LoadingView"
    /\ \E key \in {"q", "esc"} : Press(handleLoadingKeys(m, loggedIn, key))

ResultKeypress ==
    /\ m.currentView = "ResultView"
    /\ \E key \in {"q", "enter", "c", "r"} : Press(handleResultKeys(m, key))

CoursesKeypress ==
    /\ m.currentView = "CoursesView"
    /\ \E key \in {"q", "up", "down", "enter", "r", "l", "t"} : Press(handleCoursesKeys(m, key))

CourseDetailKeypress ==
    /\ m.currentView = "CourseDetailView"
    /\ \E key \in {"q", "esc", "a", "s"} : Press(handleCourseDetailKeys(m, key))

TranscriptKeypress ==
    /\ m.currentView = "TranscriptView"
    /\ \E key \in {"q", "esc", "r"} : Press(handleTranscriptKeys(m, key))

AttendanceKeypress ==
    /\ m.currentView = "AttendanceView"
    /\ \E key \in {"q", "esc", "r"} : Press(handleAttendanceKeys(m, key))

AssessmentKeypress ==
    /\ m.currentView = "AssessmentView"
    /\ \E key \in {"q", "esc", "r"} : Press(handleAssessmentKeys(m, key))

\* a login command returns
LoginResult ==
    /\ status = "running"
    /\ \E c \in BagToSet(inFlight) :
        /\ c.name = "Login"
        /\ \E code \in {ErrNone, ErrInvalidCredentials, ErrNetworkIssue, ErrParsingError} :
            Finish(UpdateLoginResult(m, code, c.session), FALSE,
                   inFlight (-) SetToBag({c}), <<>>)
    /\ UNCHANGED <<apiVars, parseVars>>

\* a GetCourses command returns
CoursesLoaded ==
    /\ status = "running"
    /\ \E c \in BagToSet(inFlight) :
        /\ c.name = "GetCourses"
        /\ \E failed \in BOOLEAN, n \in 0..MaxCourses :
            /\ failed => n = 0
            /\ Finish(UpdateCoursesLoaded(m, failed, n), FALSE,
                      inFlight (-) SetToBag({c}), <<>>)
    /\ UNCHANGED <<apiVars, parseVars>>

ActionOf(name) ==
    IF name = "GetTranscript" THEN "transcript"
    ELSE IF name = "GetCourseAttendance" THEN "attendance" ELSE "assessments"

\* transcript.json after the GetTranscript of command c has run against it.
\* In the terminal program the file holds the number of the Session whose
\* fetch wrote it. fetchTranscript returns what the file holds when refresh is
\* false and the file is there (api.go:562-567); otherwise a fetch that
\* succeeds writes the file, or fails to write it (api.go:662-664).
CacheAfterTranscript(c, failed, file) ==
    IF failed \/ (~c.refresh /\ file # <<>>) THEN {file}
    ELSE {<<c.session>>, file}

\* a GetTranscript, GetCourseAttendance or GetCourseAssessments command has
\* run and its result message is handled
CourseAction ==
    /\ status = "running"
    /\ \E c \in BagToSet(inFlight) :
        /\ c.name \in {"GetTranscript", "GetCourseAttendance", "GetCourseAssessments"}
        /\ \E failed \in BOOLEAN :
            /\ IF ~failed /\ c.name = "GetTranscript" /\ m.session = 0
               THEN /\ status' = "panic"
                    /\ inFlight' = inFlight (-) SetToBag({c})
                    /\ UNCHANGED <<m, loggedIn, nextSession>>
               ELSE Finish(UpdateCourseAction(m, ActionOf(c.name), failed), FALSE, inFlight (-) SetToBag({c}), <<>>)
            /\ cacheFile' \in IF c.name = "GetTranscript"
                              THEN CacheAfterTranscript(c, failed, cacheFile)
                              ELSE {cacheFile}
    /\ UNCHANGED <<credsFile, apiRest, parseVars>>

SavedCreds == [StudentID |-> <<"f">>, Password |-> <<"f">>]

TuiStart ==
    /\ ApiInit({NewSession}, {NoFile})
    /\ TuiInit({NoCreds, SavedCreds})
    /\ ParseIdle

TuiNext ==
    \/ LoginKeypress
    \/ LoadingKeypress
    \/ ResultKeypress
    \/ CoursesKeypress
    \/ CourseDetailKeypress
    \/ TranscriptKeypress
    \/ AttendanceKeypress
    \/ AssessmentKeypress
    \/ LoginResult
    \/ CoursesLoaded
    \/ CourseAction

SpecTui == TuiStart /\ [][TuiNext]_vars

(***************************************************************************)
(* The claims                                                              *)
(***************************************************************************)
ReportFetches == {"GetCourseAttendance", "GetTranscript"}

\* the call has left its retry loop
LeftLoop == pc = "idle" /\ op.name \in ReportFetches /\ attempts >= 1

\* C1: a report fetch whose every pass ends on a body under SizeThreshold
\* makes exactly maxRetries passes, never fewer and never one more, and then
\* returns the Exhausted error.
C1_AllSmallExhaustsAfterTen ==
    /\ attempts <= maxRetries
    /\ (LeftLoop /\ allSmall) => (attempts = maxRetries /\ ret = "errExhausted")
    /\ (op.name \in ReportFetches /\ ret = "errExhausted") => attempts = maxRetries

C1_Witness ==
    /\ op.name = "GetCourseAttendance"
    /\ LeftLoop /\ allSmall
    /\ cause = "small"
    /\ ret = "errExhausted"

\* C2: the first accepted pass of a report fetch ends the retry loop: the
\* call returns success and no later pass is made, whichever of the passes
\* 1..maxRetries it is.
C2_FirstAcceptedReturnsSuccess ==
    firstAccepted > 0 =>
        /\ pc = "idle"
        /\ attempts = firstAccepted
        /\ ret = "nil"

\* the part of C2 the code keeps: the accepted pass is the last one
C2_FirstAcceptedEndsLoop ==
    firstAccepted > 0 => (pc = "idle" /\ attempts = firstAccepted /\ ret # "none")

\* the commands in flight on a Session
OnSession(sid) == {c \in BagToSet(inFlight) : c.session = sid /\ c.name # "Login"}

\* C3: the terminal program never has two operations in flight on the same
\* Session: from the start of a fetch command to the handling of its result
\* message no key, Esc in the loading view included, starts another fetch on
\* that Session.
C3_OneOperationPerSession ==
    \A sid \in 1..MaxSessions :
        \A c \in OnSession(sid) : OnSession(sid) = {c} /\ CopiesIn(c, inFlight) = 1

FetchOperations ==
    {"GetCourses", "GetCourseAssessments", "GetCourseAttendance", "GetTranscript"}

\* the last call was a fetch on a Session without cookies
EmptyCookieFetch == op.name \in FetchOperations /\ session.Cookies = 0

\* GetTranscript was called with refresh=false and the cache file could be loaded
CacheServed == op.name = "GetTranscript" /\ ~op.args.refresh /\ cacheFile # NoFile

\* C4, as stated: every fetch operation on a Session whose cookie set is empty
\* returns an error at once: no request, no pass of a retry loop, never success.
C4_EmptyCookiesAlwaysError ==
    EmptyCookieFetch =>
        /\ pc = "idle"
        /\ trace = <<>>
        /\ attempts = 0
        /\ ret \notin {"nil", "none"}

\* C4, amended: on a Session whose cookie set is empty every fetch operation
\* returns at once without a request or a pass of a retry loop; it returns the
\* no-cookies error, except GetTranscript with refresh=false when the cache
\* file can be loaded, which returns success.
C4_EmptyCookiesNoRequest ==
    EmptyCookieFetch =>
        /\ pc = "idle"
        /\ trace = <<>>
        /\ attempts = 0
        /\ ret = IF CacheServed THEN "nil" ELSE "errNoCookies"

C4_Witness ==
    /\ EmptyCookieFetch
    /\ CacheServed
    /\ ret = "nil"
    /\ session.Student.Transcript # EmptyTranscript

Range(s) == {s[i] : i \in 1..Len(s)}

NonEmpty(credentials) == credentials.StudentID # <<>> /\ credentials.Password # <<>>

\* C5: with both credentials non-empty, the login GET and POST sent, and fewer
\* than MinLoginCookies cookies held afterwards, Login returns
\* InvalidCredentials, does not request the dashboard, and leaves the cookies
\* and the Student of the Session as they were.
C5_TooFewCookiesLeavesSession ==
    \A credentials \in CredentialSets, rememberMe \in BOOLEAN, env \in LoginEnvs :
        (NonEmpty(credentials) /\ env.getOK /\ env.postOK /\ env.jar < MinLoginCookies) =>
            LET r == SessionLogin(session, credsFile, credentials, rememberMe, env)
            IN  /\ r.code = ErrInvalidCredentials
                /\ "GET dashboard" \notin Range(r.trace)
                /\ r.s.Cookies = session.Cookies
                /\ r.s.Student = session.Student

C5_Witness ==
    /\ op.name = "Login"
    /\ ret = ErrInvalidCredentials
    /\ trace = <<"GET login", "POST login">>
    /\ IsLoggedIn(session)
    /\ session.Student.ID # op.args.studentId

\* a transport failure at one of the three requests of Login
TransportFails(env) ==
    \/ ~env.getOK
    \/ env.getOK /\ ~env.postOK
    \/ env.getOK /\ env.postOK /\ env.jar >= MinLoginCookies /\ env.dash = "transport"

\* C6: a transport failure during Login, on the GET, on the POST or on the
\* dashboard request that follows a passed cookie check, makes Login return
\* NetworkIssue.
C6_TransportFailureIsNetworkIssue ==
    \A credentials \in CredentialSets, rememberMe \in BOOLEAN, env \in LoginEnvs :
        (NonEmpty(credentials) /\ TransportFails(env)) =>
            SessionLogin(session, credsFile, credentials, rememberMe, env).code
                = ErrNetworkIssue

\* C7: when Login returns ParsingError the Session holds the login cookies
\* (IsLoggedIn is true) and Student.ID is the student id submitted.
C7_ParsingErrorKeepsLogin ==
    (op.name = "Login" /\ ret = ErrParsingError) =>
        /\ IsLoggedIn(session)
        /\ session.Student.ID = op.args.studentId

C7_Witness ==
    /\ op.name = "Login"
    /\ ret = ErrParsingError
    /\ IsLoggedIn(session)
    /\ session.Student.ID = <<"f","2">>
    /\ session.Student.Name # <<>>

CourseOfCall == session.Student.Courses[getCourseIndex(session, op.args.courseId)]

\* C8: after a successful GetCourseAttendance whose token stream has fewer than
\* MinAttendanceTokens tokens the Attendance list of the course is empty and
\* its TotalLectures and AttendancePercentage are 0, also when an earlier
\* fetch had stored other totals.
C8_ShortStreamZeroTotals ==
    (/\ op.name = "GetCourseAttendance"
     /\ pc = "idle" /\ ret = "nil"
     /\ firstAccepted > 0
     /\ tokens < MinAttendanceTokens) =>
        /\ CourseOfCall.Attendance = <<>>
        /\ CourseOfCall.TotalLectures = 0
        /\ CourseOfCall.AttendancePercentage = 0

\* the call of GetCourseAttendance this step makes, on a logged-in Session, for
\* a course the Session holds
KnownAttendanceCall ==
    /\ pc = "idle"
    /\ op'.name = "GetCourseAttendance"
    /\ ret' = "none" \/ attempts' = 0
    /\ IsLoggedIn(session)
    /\ getCourseIndex(session, op'.args.courseId) # 0

StoredList == session.Student.Courses[getCourseIndex(session, op'.args.courseId)].Attendance

\* C9: GetCourseAttendance with refresh=false on a logged-in Session, for a
\* course it holds whose Attendance list is non-empty, returns success without
\* a request and leaves the Session as it was; with refresh=true, or with an
\* empty list, the retry loop is entered and its first pass is made.
C9_CachedUnlessRefresh ==
    /\ [][KnownAttendanceCall =>
            IF ~op'.args.refresh /\ Len(StoredList) > 0
            THEN /\ pc' = "idle" /\ ret' = "nil" /\ trace' = <<>> /\ attempts' = 0
                 /\ session' = session
            ELSE /\ pc' = "GetCourseAttendance" /\ ret' = "none"]_vars
    /\ [][(pc = "GetCourseAttendance" /\ attempts = 0) => attempts' = 1]_vars

C9_Witness ==
    /\ op.name = "GetCourseAttendance"
    /\ ~op.args.refresh
    /\ pc = "idle" /\ ret = "nil" /\ attempts = 0 /\ trace = <<>>
    /\ IsLoggedIn(session)
    /\ getCourseIndex(session, op.args.courseId) # 0
    /\ Len(CourseOfCall.Attendance) > 0

\* C10: GetCourseAttendance (either refresh value) and GetCourseAssessments, on
\* a logged-in Session with a course ID the Session does not hold, return the
\* NotFound error whatever the requests do.
C10_UnknownCourseNotFound ==
    (/\ op.name \in {"GetCourseAttendance", "GetCourseAssessments"}
     /\ pc = "idle"
     /\ IsLoggedIn(session)
     /\ getCourseIndex(session, op.args.courseId) = 0) =>
        ret = "errNotFound"

\* the call of GetTranscript this step makes
TranscriptCall == pc = "idle" /\ op'.name = "GetTranscript"

\* what GetTranscript with refresh=false does when the cache file can be loaded
ServedFromCache ==
    /\ pc' = "idle" /\ ret' = "nil" /\ trace' = <<>> /\ attempts' = 0
    /\ session'.Student.Transcript = ToTranscript(cacheFile[1])

\* C11, as stated: GetTranscript with refresh=false, when the cache file can
\* be loaded, returns success without a request and leaves on the Session the
\* Transcript the file holds; with refresh=true the file is never loaded and
\* the call always goes on to its fetch loop.
C11_ForcedAlwaysFetches ==
    [][TranscriptCall =>
         IF op'.args.refresh
         THEN session' = session /\ pc' = "GetTranscript"
         ELSE cacheFile # NoFile => ServedFromCache]_vars

\* C11, amended: GetTranscript with refresh=false, when the cache file can be
\* loaded, returns success without a request and leaves on the Session the
\* Transcript the file holds; with refresh=true the file is never loaded, and
\* the call goes on to its fetch loop when the Session has cookies and returns
\* the no-cookies error without a request when it has none.
C11_CacheUnlessForced ==
    [][TranscriptCall =>
         IF op'.args.refresh
         THEN /\ session' = session
              /\ IF session.Cookies > 0
                 THEN pc' = "GetTranscript" /\ ret' = "none"
                 ELSE pc' = "idle" /\ ret' = "errNoCookies" /\ trace' = <<>>
         ELSE cacheFile # NoFile => ServedFromCache]_vars

C11_Witness ==
    /\ op.name = "GetTranscript"
    /\ op.args.refresh
    /\ cacheFile # NoFile
    /\ session.Student.Transcript # ToTranscript(cacheFile[1])
    /\ pc = "GetTranscript" /\ attempts = 0

\* a pass of the loop of fetchTranscript that parseTranscript ends
AcceptedTranscriptPass ==
    pc = "GetTranscript" /\ attempts' = attempts + 1 /\ cause' = "accepted"

\* C12: a pass of GetTranscript whose token stream parseTranscript has parsed
\* returns success and ends the loop whether or not the cache file could be
\* written: a failed write neither turns the result into an error nor leads to
\* another pass.
C12_FailedSaveStillSuccess ==
    /\ [][AcceptedTranscriptPass =>
            /\ pc' = "idle" /\ ret' = "nil"
            /\ firstAccepted' = attempts'
            /\ lastErr' = lastErr]_vars
    /\ []((op.name = "GetTranscript" /\ firstAccepted > 0) =>
            (pc = "idle" /\ attempts = firstAccepted))

\* GetTranscript has returned success from a pass whose cache write failed:
\* the file is still absent
C12_Witness ==
    /\ op.name = "GetTranscript"
    /\ firstAccepted > 1
    /\ pc = "idle" /\ ret = "nil"
    /\ cacheFile = NoFile
    /\ DOMAIN session.Student.Transcript.Semester # {}

\* C13: when GetTranscript has made maxRetries passes without an accepted one,
\* the error it returns carries the count maxRetries and wraps lastErr, which
\* is the cause of the last pass and not of an earlier one.
C13_ExhaustedWrapsLastCause ==
    /\ (pc = "GetTranscript" /\ attempts > 0) => lastErr = cause
    /\ (op.name = "GetTranscript" /\ ret = "errExhausted") =>
            /\ attempts = maxRetries
            /\ lastErr = cause
            /\ lastErr # "nil"

\* the loop has run out on an undersized body after a pass that ended otherwise
C13_Witness ==
    /\ op.name = "GetTranscript"
    /\ ret = "errExhausted"
    /\ attempts = maxRetries
    /\ lastErr = "small"
    /\ ~allSmall

CourseFetches == {"GetCourses", "GetCourseAssessments", "GetCourseAttendance"}

\* the Login this step makes gets past the cookie check of loginAPI
LoginPassesCookieCheck == op'.name = "Login" /\ ret' \in {ErrNone, ErrParsingError}

\* C14: after Logout the Session has no cookies, IsLoggedIn is false and the
\* Student is the empty one; and from then on, as long as no Login passes the
\* cookie check, the Session stays without cookies and every GetCourses,
\* GetCourseAssessments and GetCourseAttendance returns the no-cookies error
\* without a request.
C14_LogoutBlocksCourseFetches ==
    /\ [](op.name = "Logout" =>
            /\ session.Cookies = 0
            /\ ~IsLoggedIn(session)
            /\ session.Student = EmptyStudent)
    /\ [][(session.Cookies = 0 /\ ~LoginPassesCookieCheck) =>
            /\ session'.Cookies = 0
            /\ op'.name \in CourseFetches =>
                  (pc' = "idle" /\ ret' = "errNoCookies" /\ trace' = <<>>)]_vars

\* a fetch of the courses fails on a Session that an earlier Login, which saved
\* the credentials, had logged in and a Logout has emptied since
C14_Witness ==
    /\ op.name \in CourseFetches
    /\ ret = "errNoCookies"
    /\ credsFile # <<>>
    /\ session.Cookies = 0
    /\ session.Student = EmptyStudent

ClaimedZeroGrades ==
    { <<"P">>, <<"I">>, <<"W">>, <<"S","A">>, <<"S">>, <<"N","C">>, <<"F">> }

\* this step is an iteration of the loop of parseTranscript that takes the
\* four tokens at out.i as a course row whose grade is a zero-point one
ZeroGradeRow ==
    /\ fn = "parseTranscript" /\ fn' = "parseTranscript"
    /\ out'.rule = "course"
    /\ TrimSpace(Tok(arg.data, out.i + 3)) \in ClaimedZeroGrades

\* C15: a course row of the transcript stream whose grade is one of P, I, W,
\* SA, S, NC, F is appended with grade point 0 and the loop moves on by exactly
\* four tokens, whatever the token after the grade is, a token that parses as
\* a float included.
C15_ZeroGradeRowTakesFourTokens ==
    [][ZeroGradeRow =>
         /\ out'.i = out.i + 4
         /\ Len(out'.courses) = Len(out.courses) + 1
         /\ out'.courses[Len(out'.courses)].Grade = TrimSpace(Tok(arg.data, out.i + 3))
         /\ out'.courses[Len(out'.courses)].GradePoint = 0]_vars

\* a zero-point row has been taken and the next token parses as a float
C15_Witness ==
    /\ fn = "parseTranscript"
    /\ out.rule = "course"
    /\ out.i >= 4 /\ out.i < Len(arg.data)
    /\ Tok(arg.data, out.i - 1) = <<"S","A">>
    /\ out.courses[Len(out.courses)].GradePoint = 0
    /\ ParseFloat(Tok(arg.data, out.i)).ok
    /\ ParseFloat(Tok(arg.data, out.i)).val # 0

ClaimedSeasons == << <<"S","p","r","i","n","g">>, <<"S","u","m","m","e","r">>, <<"F","a","l","l">> >>

\* the ordinal of the season a semester name starts with, 0 when it has none
ClaimedSeason(name) ==
    LET hit == {k \in 1..3 : Len(Fields(name)) >= 1 /\ EqualFold(Fields(name)[1], ClaimedSeasons[k])}
    IN  IF hit = {} THEN 0 ELSE CHOOSE k \in hit : TRUE

\* the name has two fields or more, a season first and an integer year second
Orderable(name) ==
    /\ Len(Fields(name)) >= 2
    /\ ClaimedSeason(name) # 0
    /\ Atoi(Fields(name)[2]).ok

\* (year, season) of a is not after that of b
NotAfter(a, b) ==
    LET ya == Atoi(Fields(a)[2]).val
        yb == Atoi(Fields(b)[2]).val
    IN  ya < yb \/ (ya = yb /\ ClaimedSeason(a) <= ClaimedSeason(b))

SortedNames == [i \in 1..Len(out) |-> out[i].semester.Name]

ExampleNames == { <<"F","a","l","l"," ","2","0","2","1">>, <<"S","p","r","i","n","g"," ","2","0","2","1">>, <<"S","u","m","m","e","r"," ","2","0","2","1">>, <<"F","a","l","l"," ","2","0","2","0">> }

\* C16: parseAndSortSemesters returns, each once, exactly the semesters of the
\* map whose name has two fields or more with a season (Spring, Summer, Fall,
\* in any case) first and an integer year second, in ascending order of
\* (year, season) with Spring < Summer < Fall; Fall 2021, Spring 2021,
\* Summer 2021, Fall 2020, one semester each, come out as Fall 2020,
\* Spring 2021, Summer 2021, Fall 2021.
C16_OrderableSemestersSorted ==
    fn = "parseAndSortSemesters returned" =>
        /\ {out[i].semester : i \in 1..Len(out)} =
                {sem \in DOMAIN arg.data : Orderable(sem.Name)}
        /\ \A i, j \in 1..Len(out) : i # j => out[i].semester # out[j].semester
        /\ \A i, j \in 1..Len(out) : i < j => NotAfter(SortedNames[i], SortedNames[j])
        /\ (/\ Cardinality(DOMAIN arg.data) = 4
            /\ {sem.Name : sem \in DOMAIN arg.data} = ExampleNames) =>
                SortedNames = << <<"F","a","l","l"," ","2","0","2","0">>,
                                 <<"S","p","r","i","n","g"," ","2","0","2","1">>,
                                 <<"S","u","m","m","e","r"," ","2","0","2","1">>,
                                 <<"F","a","l","l"," ","2","0","2","1">> >>

C16_Witness ==
    /\ fn = "parseAndSortSemesters returned"
    /\ {sem.Name : sem \in DOMAIN arg.data} = ExampleNames
    /\ Cardinality(DOMAIN arg.data) = 4
    /\ SortedNames = << <<"F","a","l","l"," ","2","0","2","0">>,
                        <<"S","p","r","i","n","g"," ","2","0","2","1">>,
                        <<"S","u","m","m","e","r"," ","2","0","2","1">>,
                        <<"F","a","l","l"," ","2","0","2","1">> >>

\* C17: a semester whose heading the loop of parseTranscript recognised and
\* which has a course, but whose name parseAndSortSemesters cannot order, is
\* still a key of the Semester map stored on the Session when parseTranscript
\* returns, with its courses.
C17_UnorderableSemesterKept ==
    fn = "parseTranscript returned" =>
        \A sem \in DOMAIN out :
            ~Orderable(sem.Name) =>
                /\ sem \in DOMAIN session.Student.Transcript.Semester
                /\ session.Student.Transcript.Semester[sem] = out[sem]

\* C18: ToSerializable followed by ToTranscript gives back a Transcript with
\* the same Semester keys (name, credit hours, CGPA, SGPA), each with the same
\* courses, and the same four totals; it never has fewer semesters.
C18_RoundTripKeepsTranscript ==
    fn = "ToTranscript returned" =>
        /\ Cardinality(DOMAIN out.Semester) >= Cardinality(DOMAIN arg.data.Semester)
        /\ DOMAIN out.Semester = DOMAIN arg.data.Semester
        /\ \A sem \in DOMAIN arg.data.Semester : out.Semester[sem] = arg.data.Semester[sem]
        /\ out.CreditHoursEarned = arg.data.CreditHoursEarned
        /\ out.CreditHoursForGPA = arg.data.CreditHoursForGPA
        /\ out.TotalGradePoints = arg.data.TotalGradePoints
        /\ out.TotalCGPA = arg.data.TotalCGPA

\* the last token of the attendance stream
Trailer == arg.data[Len(arg.data)]

\* the trailer without the suffix it ends with, in either spelling
Stripped(t) ==
    IF HasSuffix(t, SuffixAttandence) THEN SubSeq(t, 1, Len(t) - Len(SuffixAttandence))
    ELSE IF HasSuffix(t, SuffixAttendance) THEN SubSeq(t, 1, Len(t) - Len(SuffixAttendance))
    ELSE t

\* C19: for a prefix n of decimal digits the trailers 'n % Attandence' and
\* 'n % Attendance' both give the AttendancePercentage n; a trailer that is
\* not an integer once its suffix is stripped gives 0.
C19_BothSpellingsSamePercentage ==
    fn = "StoreAttendance returned" =>
        /\ \A n \in TrailerPrefixes :
              (n # <<>> /\ AllDigits(n)
               /\ Trailer \in {n \o SuffixAttandence, n \o SuffixAttendance}) =>
                    out.AttendancePercentage = DigitsValue(n)
        /\ ~Atoi(TrimSpace(Stripped(Trailer))).ok => out.AttendancePercentage = 0

C19_Witness ==
    /\ fn = "StoreAttendance returned"
    /\ Trailer = <<"5","0">> \o SuffixAttandence
    /\ Len(arg.data) > MinAttendanceTokens
    /\ out.AttendancePercentage = 50

IsRequest(x) == x # "sleep"

\* the causes for which a pass ends at or after its test of the body size
SizeTested == {"small", "parsePost", "parseDoc", "noData", "accepted"}

\* C20: every pass of the attendance fetch and of the transcript fetch that
\* comes to test a body against SizeThreshold has sent, in this order, the
\* priming GET, the GET of the report viewer and a POST to the report viewer,
\* and the body it tests and hands to the token extractor is that of the POST.
C20_BothFetchesPostBack ==
    (op.name \in ReportFetches /\ attempts > 0 /\ cause \in SizeTested) =>
        SelectSeq(trace, IsRequest) = <<"GET prime", "GET viewer", "POST viewer">>

\* the part of C20 the code keeps: the passes of the attendance fetch
C20_AttendancePostsBack ==
    (op.name = "GetCourseAttendance" /\ attempts > 0 /\ cause \in SizeTested) =>
        SelectSeq(trace, IsRequest) = <<"GET prime", "GET viewer", "POST viewer">>

\* the report-viewer page env serves lacks a hidden value, or has it empty
AnyHiddenEmpty(env) == "" \in {env.viewState, env.viewStateGen, env.eventValidation}

\* the viewer page of env is fetched and parsed
ViewerPageRead(env) ==
    env.fail \notin {"newRequest1", "prime", "newRequest2", "viewer", "readViewer", "parseViewer"}

FailedPass == op.name \in ReportFetches /\ attempts > 0 /\ cause \notin {"none", "accepted"}

\* C22: in the attendance and in the transcript retry loop every failed pass,
\* whatever made it fail, ends with the delay step, so that the delay comes
\* before the first request of the next pass.
C22_EveryFailedPassSleeps ==
    FailedPass => (trace # <<>> /\ trace[Len(trace)] = "sleep")

\* the part of C22 the code keeps: the failed passes of the attendance fetch
\* other than the one whose POST body does not parse
C22_AttendancePassSleeps ==
    (FailedPass /\ op.name = "GetCourseAttendance" /\ cause # "parsePost") =>
        (trace # <<>> /\ trace[Len(trace)] = "sleep")

\* the indices of a stream of n tokens
Indices(data) == 0..(Len(data) - 1)

\* C23: every iteration of the loop of parseTranscript reads tokens inside
\* the stream only and advances the index by 1, 4 or 5 without passing the
\* stream length, so the loop ends on every finite stream; the attendance
\* parser reads tokens inside the stream only for every stream of
\* MinAttendanceTokens tokens or more.
C23_ParsersStayInsideStream ==
    /\ [](fn = "parseTranscript" =>
            /\ out.i <= Len(arg.data)
            /\ out.i < Len(arg.data) => TranscriptReads(out, arg.data) \subseteq Indices(arg.data))
    /\ [][(fn = "parseTranscript" /\ fn' = "parseTranscript") =>
            (out'.i - out.i) \in {1, 4, 5}]_vars
    /\ []((arg.for = "StoreAttendance" /\ Len(arg.data) >= MinAttendanceTokens) =>
            AttendanceReads(arg.data) \subseteq Indices(arg.data))

\* the loop has taken a course row of five tokens that ends the stream
C23_Witness ==
    /\ fn = "parseTranscript"
    /\ out.rule = "course"
    /\ out.i = Len(arg.data)
    /\ out.courses[Len(out.courses)].GradePoint # 0

\* this step is an iteration of the loop of parseTranscript that takes the
\* tokens at out.i as a course row whose grade is not a zero-point one
GradedRow ==
    /\ fn = "parseTranscript" /\ fn' = "parseTranscript"
    /\ out'.rule = "course"
    /\ TrimSpace(Tok(arg.data, out.i + 3)) \notin ClaimedZeroGrades

\* the token after the grade of the row at out.i is there and parses as a float
LookaheadParses ==
    /\ out.i + 4 < Len(arg.data)
    /\ ParseFloat(TrimSpace(Tok(arg.data, out.i + 4))).ok

\* C24: for a course row whose grade is not a zero-point one, when the token
\* at i+4 is absent or does not parse as a float the course is appended with
\* grade point 0 and the index moves to i+4, so that token is dispatched
\* next; when it parses as a float the course is appended with that grade
\* point and the index moves to i+5.
C24_LookaheadTakenOnlyIfFloat ==
    [][GradedRow =>
         /\ Len(out'.courses) = Len(out.courses) + 1
         /\ IF LookaheadParses
            THEN /\ out'.courses[Len(out'.courses)].GradePoint =
                        ParseFloat(TrimSpace(Tok(arg.data, out.i + 4))).val
                 /\ out'.i = out.i + 5
            ELSE /\ out'.courses[Len(out'.courses)].GradePoint = 0
                 /\ out'.i = out.i + 4]_vars

\* a graded row has been taken with grade point 0 and the semester heading
\* after its grade is the next token
C24_Witness ==
    /\ fn = "parseTranscript"
    /\ out.rule = "course"
    /\ out.i >= 4 /\ out.i < Len(arg.data)
    /\ Tok(arg.data, out.i - 1) = <<"A">>
    /\ out.courses[Len(out.courses)].GradePoint = 0
    /\ IsSeasonHeading(Tok(arg.data, out.i))

\* this step is a semester heading or the end of the stream
FlushPoint ==
    /\ fn = "parseTranscript"
    /\ \/ fn' = "parseTranscript" /\ out'.rule = "season"
       \/ fn' = "parseTranscript returned"

\* the semester map after this step of parseTranscript
SemesterDataAfter == IF fn' = "parseTranscript" THEN out'.semesterData ELSE out'

\* C25: on each semester heading and at stream end the accumulated courses
\* are stored under the semester before it if and only if that semester has a
\* name and at least one course, and the map changes at no other step; so a
\* heading followed by no course row gives no entry, and no entry has an empty
\* name or an empty course list.
C25_FlushOnlyNamedNonEmpty ==
    /\ [][FlushPoint =>
            SemesterDataAfter =
                IF out.currentSemester.Name # <<>> /\ Len(out.courses) > 0
                THEN MapPut(out.semesterData, out.currentSemester, out.courses)
                ELSE out.semesterData]_vars
    /\ [][(fn = "parseTranscript" /\ fn' = "parseTranscript" /\ out'.rule # "season") =>
            out'.semesterData = out.semesterData]_vars
    /\ [](fn = "parseTranscript" =>
            \A sem \in DOMAIN out.semesterData :
                sem.Name # <<>> /\ Len(out.semesterData[sem]) > 0)
    /\ [](fn = "parseTranscript returned" =>
            \A sem \in DOMAIN out : sem.Name # <<>> /\ Len(out[sem]) > 0)

\* the stream began with a heading that the next heading followed at once:
\* the map holds the second semester and nothing under the first heading
C25_Witness ==
    /\ fn = "parseTranscript returned"
    /\ Len(arg.data) >= 2
    /\ IsSeasonHeading(arg.data[1]) /\ IsSeasonHeading(arg.data[2])
    /\ DOMAIN out # {}
    /\ \A sem \in DOMAIN out : sem.Name # arg.data[1]

\* the five header literals of the transcript table
ClaimedHeaderLiterals ==
    { <<"C","o","u","r","s","e"," ","C","o","d","e">>,
      <<"C","o","u","r","s","e"," ","T","i","t","l","e">>,
      <<"C","r","."," ","H","r","s">>, <<"G","r","a","d","e">>, <<"G",".","P",".">> }

\* the token the loop of parseTranscript dispatches in this step
DispatchedLine == TrimSpace(Tok(arg.data, out.i))

\* the first rule, in the stated order, that the dispatched token matches
FirstRule ==
    IF DispatchedLine \in ClaimedHeaderLiterals THEN "header"
    ELSE IF \E k \in 1..Len(ClaimedSeasons) : Contains(DispatchedLine, ClaimedSeasons[k]) THEN "season"
    ELSE IF Contains(DispatchedLine, <<"C","r","."," ","H","r","s","."," ","E","a","r","n","e","d",":">>) THEN "earned"
    ELSE IF Contains(DispatchedLine, <<"S","G","P","A",":">>) THEN "sgpa"
    ELSE "row"

\* one iteration of the loop of parseTranscript
DispatchStep == fn = "parseTranscript" /\ fn' = "parseTranscript"

\* C26: each token is handled by the first rule it matches in the order
\* header literal, season heading, credit-hours label, SGPA label, course
\* row, and by that rule only; each of the first four rules advances by one
\* token and emits no course.
C26_FirstMatchingRuleOnly ==
    [][DispatchStep =>
         /\ FirstRule = "header" =>
                out' = [out EXCEPT !.i = @ + 1, !.rule = out'.rule]
         /\ FirstRule = "season" =>
                /\ out'.currentSemester = [Name |-> DispatchedLine, CreditHoursEarned |-> 0, CGPA |-> 0, SGPA |-> 0]
                /\ out'.courses = <<>>
                /\ out'.totalCreditHours = out.totalCreditHours
         /\ FirstRule = "earned" =>
                /\ out'.currentSemester.Name = out.currentSemester.Name
                /\ out'.currentSemester.SGPA = out.currentSemester.SGPA
                /\ out'.courses = out.courses /\ out'.semesterData = out.semesterData
         /\ FirstRule = "sgpa" =>
                /\ out'.currentSemester = [out.currentSemester EXCEPT !.SGPA = out'.currentSemester.SGPA]
                /\ out'.courses = out.courses /\ out'.semesterData = out.semesterData
                /\ out'.totalCreditHours = out.totalCreditHours
         /\ FirstRule # "row" =>
                /\ out'.i = out.i + 1
                /\ out'.totalCreditHoursForGrade = out.totalCreditHoursForGrade
                /\ out'.totalGradePoints = out.totalGradePoints
                /\ \A k \in 1..Len(out'.courses) : k <= Len(out.courses) /\ out'.courses[k] = out.courses[k]
         /\ FirstRule = "row" =>
                /\ out'.currentSemester = out.currentSemester
                /\ out'.semesterData = out.semesterData
                /\ out'.totalCreditHours = out.totalCreditHours]_vars

\* a token with a season word, the credit-hours label and a course row's
\* neighbours was handled as a heading
C26_Witness ==
    /\ fn = "parseTranscript" /\ out.i >= 1
    /\ Contains(Tok(arg.data, out.i - 1), <<"F","a","l","l">>)
    /\ Contains(Tok(arg.data, out.i - 1), <<"C","r","."," ","H","r","s","."," ","E","a","r","n","e","d",":">>)
    /\ Atoi(Tok(arg.data, out.i + 1)).ok /\ out.i + 2 < Len(arg.data)
    /\ out.currentSemester.Name = Tok(arg.data, out.i - 1)
    /\ out.courses = <<>>

\* the dispatched token goes to the credit-hours rule
EarnedLineDispatched == DispatchStep /\ FirstRule = "earned"

\* the text after the credit-hours label, up to the CGPA label if there is one
TextAfterEarnedLabel ==
    TrimSpace(RemoveFirst(Split(DispatchedLine, <<"C","G","P","A",":">>)[1], <<"C","r","."," ","H","r","s","."," ","E","a","r","n","e","d",":">>))

\* C27: when the dispatched token has the credit-hours label and the text
\* after the label (up to the CGPA label, if present) is an integer, the
\* current semester's earned credit hours become that integer and the running
\* total grows by it, with or without a CGPA part in the token.
C27_EarnedHoursSetWithoutCGPA ==
    [][(EarnedLineDispatched /\ Atoi(TextAfterEarnedLabel).ok) =>
         /\ out'.currentSemester.CreditHoursEarned = Atoi(TextAfterEarnedLabel).val
         /\ out'.totalCreditHours = out.totalCreditHours + Atoi(TextAfterEarnedLabel).val]_vars

\* the same for the tokens that have the CGPA part
C27_EarnedHoursSetWithCGPA ==
    [][(EarnedLineDispatched /\ Atoi(TextAfterEarnedLabel).ok
            /\ Contains(DispatchedLine, <<"C","G","P","A",":">>)) =>
         /\ out'.currentSemester.CreditHoursEarned = Atoi(TextAfterEarnedLabel).val
         /\ out'.totalCreditHours = out.totalCreditHours + Atoi(TextAfterEarnedLabel).val]_vars

\* the course this step of parseTranscript emitted, if it emitted one
EmittedCourses ==
    IF out'.rule = "course" THEN <<out'.courses[Len(out'.courses)]>> ELSE <<>>

\* a course with a grade outside the zero-point set and a non-zero grade point
HasGradePoints(c) == c.Grade \notin ClaimedZeroGrades /\ c.GradePoint # 0

\* a course whose credit hours count for the GPA
CountsForGpa(c) ==
    \/ c.Grade = <<"F">> /\ ~Contains(c.Title, <<"[","R","]">>)
    \/ HasGradePoints(c)

\* the GPA credit hours are the sum of the credit hours of the emitted courses
\* that count for the GPA: 0 before the loop, and each step adds the hours of
\* the course it emits if that course counts
C28_GpaHoursSumOfCounted ==
    /\ [](fn = "parseTranscript" /\ out.rule = "start" => out.totalCreditHoursForGrade = 0)
    /\ [][DispatchStep =>
            out'.totalCreditHoursForGrade = out.totalCreditHoursForGrade
                + (IF EmittedCourses # <<>> /\ CountsForGpa(EmittedCourses[1])
                   THEN EmittedCourses[1].CreditHours ELSE 0)]_vars

\* C28: at the end of a transcript parse the GPA credit hours are the sum of
\* the credit hours of the emitted courses that have grade F and no repeat
\* marker or a grade outside the zero-point set with a non-zero grade point,
\* and the total grade points are the sum of the grade points of the latter:
\* both start at 0 and each step adds what the course it emits contributes.
C28_AccumulatorsSumEmittedCourses ==
    /\ C28_GpaHoursSumOfCounted
    /\ [](fn = "parseTranscript" /\ out.rule = "start" => out.totalGradePoints = 0)
    /\ [][DispatchStep =>
            out'.totalGradePoints = out.totalGradePoints
                + (IF EmittedCourses # <<>> /\ HasGradePoints(EmittedCourses[1])
                   THEN EmittedCourses[1].GradePoint ELSE 0)]_vars

\* the total grade points are the sum of the positive grade points
C28_PointsSumOfPositive ==
    [][DispatchStep =>
         out'.totalGradePoints = out.totalGradePoints
             + (IF EmittedCourses # <<>> /\ HasGradePoints(EmittedCourses[1])
                      /\ EmittedCourses[1].GradePoint > 0
                THEN EmittedCourses[1].GradePoint ELSE 0)]_vars

\* the number of groups of a stream of 4 + 4k + 2 tokens
GroupCount(data) == (Len(data) - 6) \div 4

\* the lecture token of group g (the groups are numbered from 1)
LectureToken(data, g) == data[4 * g + 1]

\* the number a lecture token carries after its prefix
LectureNumberOf(tok) == Atoi(TrimPrefix(tok, <<"L","e","c","t","u","r","e"," ","N","o","."," ">>))

\* the records of the groups g..k with a numeric lecture token, in stream order
RECURSIVE GroupRecords(_, _, _)
GroupRecords(data, g, k) ==
    IF g > k THEN <<>>
    ELSE (IF LectureNumberOf(LectureToken(data, g)).ok
          THEN << [LectureNumber |-> LectureNumberOf(LectureToken(data, g)).val,
                   LectureDate   |-> data[4 * g + 2],
                   Attendance    |-> data[4 * g + 3] \in {<<"P","r","e","s","e","n","t">>, <<"p","r","e","s","e","n","t">>, <<"P","R","E","S","E","N","T">>},
                   Faculty       |-> data[4 * g + 4]] >>
          ELSE <<>>)
         \o GroupRecords(data, g + 1, k)

\* C29: for an attendance stream of 4 + 4k + 2 tokens the records are those
\* of the k groups in stream order, one per group with a numeric lecture
\* token (k records when every lecture token is numeric); a group with a
\* non-numeric lecture token is skipped as a whole and the next group starts
\* four tokens later; the loop reads neither of the two trailer tokens.
C29_OneRecordPerNumericGroup ==
    (/\ fn = "StoreAttendance returned"
     /\ Len(arg.data) >= 6 /\ (Len(arg.data) - 6) % 4 = 0)
    => /\ out.Attendance = GroupRecords(arg.data, 1, GroupCount(arg.data))
       /\ (\A g \in 1..GroupCount(arg.data) : LectureNumberOf(LectureToken(arg.data, g)).ok)
            => Len(out.Attendance) = GroupCount(arg.data)
       /\ AttendanceLoopReads(arg.data, 4, Len(arg.data) - 2)
            \cap {Len(arg.data) - 2, Len(arg.data) - 1} = {}

\* two groups, the first with a non-numeric lecture token: the one record is
\* the second group's
C29_Witness ==
    /\ fn = "StoreAttendance returned"
    /\ Len(arg.data) = 14
    /\ ~LectureNumberOf(LectureToken(arg.data, 1)).ok
    /\ LectureNumberOf(LectureToken(arg.data, 2)).ok
    /\ Len(out.Attendance) = 1
    /\ out.Attendance[1].LectureNumber = 2
    /\ ~out.Attendance[1].Attendance

\* setTranscriptTable has returned
TableSet == fn = "setTranscriptTable returned"

\* no two semesters of the input have the same (year, season)
NoTiedSemesters ==
    \A a, b \in SemesterKeys(arg.data) :
        (a.year = b.year /\ a.season = b.season) => a = b

\* table i holds the courses of semester i of transcriptSemesters
TableMatchesSemesters ==
    /\ Len(out.table) = Len(out.transcriptSemesters)
    /\ \A i \in 1..Len(out.table) :
        out.table[i].rows = TableRows(arg.data[out.transcriptSemesters[i].semester])

\* C30: parseAndSortSemesters returns the same sequence each time it is
\* called on the same semester map, also when two keys have the same
\* (year, season), so that after setTranscriptTable the table at each index
\* is the one of the semester at that index of transcriptSemesters.
C30_TableMatchesSemesters ==
    /\ fn = "parseAndSortSemesters returned" =>
            parseAndSortSemesters(arg.data) = {out}
    /\ TableSet => TableMatchesSemesters

\* the same when no two semesters have the same (year, season)
C30_TableMatchesWithoutTies ==
    /\ (fn = "parseAndSortSemesters returned" /\ NoTiedSemesters) =>
            parseAndSortSemesters(arg.data) = {out}
    /\ (TableSet /\ NoTiedSemesters) => TableMatchesSemesters

\* the two Fall 2021 semesters are shown, each with the other one's courses
C30_TablesSwapped ==
    /\ TableSet /\ Len(out.table) = 2
    /\ out.transcriptSemesters[1].semester.Name = out.transcriptSemesters[2].semester.Name
    /\ out.table[1].rows = TableRows(arg.data[out.transcriptSemesters[2].semester])
    /\ out.table[2].rows = TableRows(arg.data[out.transcriptSemesters[1].semester])
    /\ out.table[1].rows # out.table[2].rows

\* this step ends a GetCourseAttendance or a GetCourseAssessments with success
CourseFetchSucceeds ==
    /\ op'.name \in {"GetCourseAttendance", "GetCourseAssessments"}
    /\ pc' = "idle" /\ ret' = "nil"

\* the courses of the Session before and after this step
CoursesBefore == session.Student.Courses
CoursesAfter == session'.Student.Courses

\* the places of the list that hold the ID the call was given
PlacesOfCourse == {i \in 1..Len(CoursesBefore) : CoursesBefore[i].ID = op'.args.courseId}

\* C31: a GetCourseAttendance or GetCourseAssessments that succeeds for the
\* course ID c changes at most the first course of the list whose ID is c:
\* every other course, the length and the order of the list, the cookies and
\* the profile fields stay as they were.
C31_OnlyFirstMatchingCourseChanges ==
    [][CourseFetchSucceeds =>
         /\ Len(CoursesAfter) = Len(CoursesBefore)
         /\ \A i \in 1..Len(CoursesBefore) :
                \/ CoursesAfter[i] = CoursesBefore[i]
                \/ /\ i \in PlacesOfCourse /\ \A j \in PlacesOfCourse : i <= j
                   /\ CoursesAfter[i].ID = CoursesBefore[i].ID
                   /\ CoursesAfter[i].Code = CoursesBefore[i].Code
         /\ session'.Cookies = session.Cookies
         /\ [session'.Student EXCEPT !.Courses = CoursesBefore] = session.Student]_vars

\* two courses have the ID of a GetCourseAssessments that succeeded: the
\* first holds the assessments, the second holds none
C31_Witness ==
    /\ op.name = "GetCourseAssessments" /\ ret = "nil"
    /\ Len(session.Student.Courses) = 2
    /\ session.Student.Courses[1].ID = op.args.courseId
    /\ session.Student.Courses[2].ID = op.args.courseId
    /\ session.Student.Courses[1].Assessment # <<>>
    /\ session.Student.Courses[2].Assessment = <<>>

\* the views whose handlers and rendering work on the Session
SessionViews ==
    {"CoursesView", "CourseDetailView", "AttendanceView", "AssessmentView", "TranscriptView"}

\* C32: the terminal program never dereferences a nil session: no result
\* message and no rendering does, and in every view other than the login,
\* loading and result views the model holds a Session, also when the user
\* left the loading view with Esc and logged out before the result arrived.
C32_SessionHeldWhenRead ==
    /\ status # "panic"
    /\ m.currentView \in SessionViews => m.session # 0

\* the result of a fetch arrives after the logout: the model shows the courses
\* view and holds no Session
C32_CoursesViewWithoutSession ==
    /\ m.currentView = "CoursesView" /\ m.session = 0
    /\ m.courseError /\ status = "panic"

\* the Session the terminal program holds or is logging in
LiveSessions ==
    {m.session} \cup {c.session : c \in {x \in BagToSet(inFlight) : x.name = "Login"}}

\* this step handles the result of the GetTranscript(false) of command c, which
\* succeeded while transcript.json was there: the Session was given what the
\* file held
ServedFromFile(c) ==
    /\ c.name = "GetTranscript" /\ ~c.refresh
    /\ c \in BagToSet(inFlight) /\ inFlight' = inFlight (-) SetToBag({c})
    /\ cacheFile # <<>> /\ cacheFile' = cacheFile
    /\ m'.currentView = "TranscriptView"

\* C33: once the user has logged out, transcript.json stays absent until a
\* transcript fetch of a later Session saves it: the file is never one that a
\* fetch of a Session the program no longer holds has written, so that a
\* GetTranscript(false) is never served a transcript fetched with the cookies
\* of an earlier Session.
C33_CacheOnlyFromLiveSession ==
    /\ [](cacheFile # <<>> => cacheFile[1] \in LiveSessions)
    /\ [][\A c \in BagToSet(inFlight) : ServedFromFile(c) => cacheFile[1] = c.session]_vars

\* the second Session is shown the transcript while the file is the one the
\* fetch of the first Session wrote
C33_ServedPreviousTranscript ==
    /\ m.currentView = "TranscriptView" /\ m.session = 2
    /\ cacheFile = <<1>>
    /\ inFlight = EmptyBag

\* resetToLogin leaves no transcript.json behind
C33_LogoutDeletesCache ==
    [][(m.session # 0 /\ m'.session = 0) => cacheFile' = <<>>]_vars

\* GetTranscript has returned an error
TranscriptFetchFailed == fn = "fetchTranscript returned" /\ out.err # "nil"

\* C34: when GetTranscript returns an error, the Transcript of the Session,
\* its semester map and its four totals, is what it was before the call.
C34_FailedTranscriptKeepsTranscript ==
    TranscriptFetchFailed => out.s.Student.Transcript = arg.data.s.Student.Transcript

\* the part of C34 the code keeps: the semester map is what it was
C34_FailedTranscriptKeepsSemesters ==
    TranscriptFetchFailed =>
        out.s.Student.Transcript.Semester = arg.data.s.Student.Transcript.Semester

\* every pass found the totals and no transcript data: the call failed and the
\* totals of the Session are those of the page
C34_TotalsChangedByFailedCall ==
    /\ TranscriptFetchFailed /\ out.err = "errExhausted"
    /\ arg.data.s.Student.Transcript = EmptyTranscript
    /\ out.s.Student.Transcript.Semester = EmptyTranscript.Semester
    /\ out.s.Student.Transcript.TotalCGPA # <<>>

\* a step of a GetCourseAttendance call that does not end it with success: the
\* call is entered or refused, a pass fails, the course is not found, or the
\* loop runs out
AttendanceStepWithoutSuccess ==
    /\ op'.name = "GetCourseAttendance"
    /\ ~(pc' = "idle" /\ ret' = "nil")

\* what a course holds of its attendance
AttendanceFields(course) ==
    <<course.Attendance, course.TotalLectures, course.AttendancePercentage>>

\* C35: a GetCourseAttendance that returns an error (no cookies, course not
\* found, passes used up) has changed no course's Attendance, TotalLectures or
\* AttendancePercentage: no step of the call other than the one that returns
\* success changes them.
C35_FailedAttendanceKeepsCourses ==
    [][AttendanceStepWithoutSuccess =>
         /\ Len(CoursesAfter) = Len(CoursesBefore)
         /\ \A i \in 1..Len(CoursesBefore) :
                AttendanceFields(CoursesAfter[i]) = AttendanceFields(CoursesBefore[i])]_vars

\* a refresh of a course that holds attendance records has used up its passes:
\* the records are still there
C35_Witness ==
    /\ op.name = "GetCourseAttendance" /\ op.args.refresh
    /\ pc = "idle" /\ ret = "errExhausted" /\ attempts = maxRetries
    /\ getCourseIndex(session, op.args.courseId) # 0
    /\ session.Student.Courses[getCourseIndex(session, op.args.courseId)].Attendance # <<>>

\* the course of a refresh is not in the list: the call reports it after an
\* accepted pass
C35_NotFoundAfterPass ==
    /\ op.name = "GetCourseAttendance" /\ ret = "errNotFound" /\ attempts >= 1
    /\ Len(session.Student.Courses) > 0

\* this step is a GetCourses that returns an error
CoursesFetchFails == op'.name = "GetCourses" /\ ret' # "nil"

\* C36: a GetCourses that returns an error leaves the course list of the
\* Session, with the attendance and the assessments its courses hold, as it
\* was.
C36_FailedCoursesKeepsList ==
    [][CoursesFetchFails => CoursesAfter = CoursesBefore]_vars

\* the part of C36 the code keeps: without cookies the list is as it was
C36_NoCookiesKeepsList ==
    [][(CoursesFetchFails /\ session.Cookies = 0) => CoursesAfter = CoursesBefore]_vars

\* a GetCourses has failed on a Session that has cookies: it holds no course
C36_ListClearedByFailedCall ==
    /\ op.name = "GetCourses" /\ ret = "errRequest"
    /\ session.Cookies > 0 /\ session.Student.Courses = <<>>

\* the course rows the loop of parseTranscript consumes from st on, in stream
\* order, each with the name of the semester that is current when it is read
RECURSIVE ConsumedRows(_, _)
ConsumedRows(st, data) ==
    IF st.i >= Len(data) THEN <<>>
    ELSE LET nx == TranscriptStep(st, data)
         IN  (IF nx.rule = "course"
              THEN << [heading |-> st.currentSemester.Name, course |-> nx.courses[Len(nx.courses)]] >>
              ELSE <<>>) \o ConsumedRows(nx, data)

\* the courses of the rows read under the heading h, in stream order
RowsUnder(rows, h) ==
    LET under == SelectSeq(rows, LAMBDA r : r.heading = h)
    IN  [k \in 1..Len(under) |-> under[k].course]

StoredSemesters == session.Student.Transcript.Semester

\* C37: when parseTranscript returns, the courses of the rows it consumed
\* under a heading are, in stream order and each once, the course list of the
\* one stored semester of that name, and no stored semester holds anything
\* else: no consumed row is dropped or attributed to another semester.
C37_ConsumedRowsStored ==
    fn = "parseTranscript returned" =>
        LET rows == ConsumedRows(ParserInit, arg.data)
        IN  /\ \A k \in 1..Len(rows) :
                    \E sem \in DOMAIN StoredSemesters :
                        /\ sem.Name = rows[k].heading
                        /\ StoredSemesters[sem] = RowsUnder(rows, rows[k].heading)
            /\ \A sem \in DOMAIN StoredSemesters :
                    /\ StoredSemesters[sem] = RowsUnder(rows, sem.Name)
                    /\ \A other \in DOMAIN StoredSemesters : other.Name = sem.Name => other = sem

\* what does hold: the same for the rows read under a heading that
\* parseAndSortSemesters can order
C37_OrderableRowsStored ==
    fn = "parseTranscript returned" =>
        LET rows == ConsumedRows(ParserInit, arg.data)
        IN  /\ \A k \in 1..Len(rows) :
                    Orderable(rows[k].heading) =>
                        \E sem \in DOMAIN StoredSemesters :
                            /\ sem.Name = rows[k].heading
                            /\ StoredSemesters[sem] = RowsUnder(rows, rows[k].heading)
            /\ \A sem \in DOMAIN StoredSemesters :
                    /\ StoredSemesters[sem] = RowsUnder(rows, sem.Name)
                    /\ \A other \in DOMAIN StoredSemesters : other.Name = sem.Name => other = sem

\* a row read under the heading "Summer-2021", and one read before any
\* heading, are in no stored semester although a later semester is stored
C37_RowsDropped ==
    /\ fn = "parseTranscript returned"
    /\ DOMAIN StoredSemesters # {}
    /\ \E k \in 1..Len(ConsumedRows(ParserInit, arg.data)) :
            LET h == ConsumedRows(ParserInit, arg.data)[k].heading
            IN  /\ h \in {<<"S","u","m","m","e","r","-","2","0","2","1">>, <<>>}
                /\ \A sem \in DOMAIN StoredSemesters : sem.Name # h

\* C38: in every state of the terminal program with a non-empty course list
\* the selected index is an index of the list, 0 <= selectedCourse <
\* len(courses), also after a refresh that returns fewer courses than before.
C38_SelectedCourseInList ==
    m.courses > 0 => (0 <= m.selectedCourse /\ m.selectedCourse < m.courses)

\* what does hold: the selected index is never negative, and the up and down
\* keys of the courses view leave it an index of the list when it was one
C38_KeysKeepSelectionInList ==
    /\ [](m.selectedCourse >= 0)
    /\ [][(m.currentView = "CoursesView" /\ m'.courses = m.courses /\ CourseSelected(m))
              => CourseSelected(m')]_vars

\* the second of two courses was selected and a refresh returned one course
C38_SelectionPastShorterList ==
    /\ m.currentView = "CoursesView"
    /\ m.courses = 1
    /\ m.selectedCourse = 1

=============================================================================
